---- MODULE Spec2Model ----
(***************************************************************************)
(* A model of the College Departments Portal server (src/2_server.py):     *)
(* the accept loop, the per-connection handler, the SQLite store it reads  *)
(* and writes, and the CSV exports.                                        *)
(*                                                                         *)
(* Text is modelled by shape.  A string is                                 *)
(*     lead spaces  ++  n copies of the blank-free unit ch  ++ trail spaces*)
(* so that strip(), len() and SUBSTR() are computed, not assumed.          *)
(***************************************************************************)
EXTENDS Integers, Sequences, FiniteSets, TLC

\* ------------------------------------------------------------- bounds
MaxConns == 2       \* connections the accept loop takes in one run
MaxClock == 2       \* seconds the wall clock advances
MaxNew   == 1       \* entries inserted in one run of the session protocol
MaxRows  == 2       \* entries inserted in one run of the submit runs
StoreRows  == 2     \* entries inserted in one run of the store runs
ConcRows   == 2     \* entries inserted in one run of the threaded runs
DecodeRows == 1     \* entries inserted in one run of the decoding runs
ExportRows == 2     \* entries inserted in one run of the export runs
LogRows    == 1     \* entries inserted in one run of the logging runs
FaultRows  == 1     \* entries inserted in one run of the fault runs
SaveRows   == 2     \* entries inserted in one run of the save runs
RecentRows == 11    \* entries inserted in one run of the recent runs
Preload  == 10      \* entries a store left by an earlier run holds

\* -------------------------------------------------- program constants
RecvBuf     == 1024     \* client_socket.recv(1024)
MaxContent  == 10000    \* len(data_content) > 10000
RecentLimit == 10       \* get_recent_entries(self, limit=10)
PreviewLen  == 100      \* SUBSTR(de.data_content, 1, 100)
IdleTimeout == 60       \* client_socket.settimeout(60.0)

Conns == 1..MaxConns

Min(a, b) == IF a < b THEN a ELSE b

\* ---------------------------------------------------------------- text
Str(ch, n) == [lead |-> 0, ch |-> ch, n |-> n, trail |-> 0]
Lit(ch)    == Str(ch, 1)
Empty      == Str("", 0)
Pad(s, l, t) == [s EXCEPT !.lead = l, !.trail = t]

\* len(s)
Length(s) == s.lead + s.n * Len(s.ch) + s.trail

\* str.strip(): leading and trailing whitespace removed; a string of
\* whitespace only becomes ''.
strip(s) == IF s.n * Len(s.ch) = 0 THEN Empty ELSE Pad(s, 0, 0)

\* Python truthiness of a string: '' is falsy.
Truthy(s) == Length(s) > 0

\* SQLite SUBSTR(s, 1, k) and Python s[:k], for text whose unit is one
\* character wide.
Prefix(s, k) ==
    LET l == Min(s.lead, k)
        b == Min(s.n, k - l)
        t == Min(s.trail, k - l - b)
    IN  IF Length(s) <= k THEN s ELSE [lead |-> l, ch |-> s.ch, n |-> b, trail |-> t]

\* hashlib.sha256(password.encode()).hexdigest(): a deterministic digest of
\* the exact characters, taken to be collision free.
sha256(s) == <<"sha256", s>>

\* ---------------------------------------------------------------- JSON
JStr(s)  == [type |-> "string", str |-> s]
JNum     == [type |-> "number"]
IsStr(v) == v.type = "string"

\* message.get(key, '')
Get(m, key) == IF key \in DOMAIN m THEN m[key] ELSE JStr(Empty)

\* The text of field key, empty when the field is not a string.
Text(m, key) == IF IsStr(Get(m, key)) THEN Get(m, key).str ELSE Empty

\* message.get('action') == name
ActionIs(m, name) ==
    /\ "action" \in DOMAIN m
    /\ IsStr(m["action"])
    /\ m["action"].str = Lit(name)

RECURSIVE SumLen(_, _)
SumLen(m, keys) ==
    IF keys = {} THEN 0
    ELSE LET k == CHOOSE x \in keys : TRUE
             v == IF IsStr(m[k]) THEN Length(m[k].str) + 2 ELSE 1
         IN  Len(k) + 4 + v + SumLen(m, keys \ {k})

\* len(json.dumps(message).encode()): '{' '"key": value' joined by ', ' '}'
EncLen(m) == 2 + SumLen(m, DOMAIN m) + 2 * (Cardinality(DOMAIN m) - 1)

\* The reads one message takes: recv(1024) hands over at most RecvBuf bytes.
Reads(m) == (EncLen(m) + RecvBuf - 1) \div RecvBuf

\* ------------------------------------------------------ the seeded store
\* add_sample_departments: the rows it inserts; dept_id is assigned 1, 2, ...
\* in this order.
SampleDepartments ==
    << <<"Computer Science", "cs@college.edu",        "cs_password123">>,
       <<"Mathematics",      "math@college.edu",      "math_password123">>,
       <<"Physics",          "physics@college.edu",   "physics_password123">>,
       <<"Chemistry",        "chemistry@college.edu", "chem_password123">>,
       <<"Biology",          "bio@college.edu",       "bio_password123">>,
       <<"English",          "english@college.edu",   "eng_password123">>,
       <<"Engineering",      "eng@college.edu",       "eng_password123">>,
       <<"Business",         "business@college.edu",  "business_password123">> >>

\* Table departments.  The server only reads it: its rows are those the
\* setup script seeded.
departments ==
    [i \in 1..Len(SampleDepartments) |->
        [dept_id       |-> i,
         dept_name     |-> SampleDepartments[i][1],
         email         |-> Lit(SampleDepartments[i][2]),
         password_hash |-> sha256(Lit(SampleDepartments[i][3]))]]

\* A row of data_entries.
Entry(id, dept, type, content, at) ==
    [entry_id |-> id, dept_id |-> dept, entry_type |-> type,
     data_content |-> content, created_at |-> at]

\* The stores a server can start on: the one create_database has just made,
\* and one that earlier runs filled (its rows were created before this run's
\* clock started).
FreshStore == << >>
UsedStore  ==
    [i \in 1..Preload |->
        Entry(i, 1, Lit("Student Records"), Str("A", 50), i - Preload - 1)]

VARIABLES
    clock,          \* the wall clock, in seconds (datetime.now, CURRENT_TIMESTAMP)
    entries,        \* table data_entries, in rowid order
    sequence,       \* sqlite_sequence of data_entries (AUTOINCREMENT)
    files,          \* the files in the working directory: name -> content
    stats,          \* self.stats
    clients,        \* self.clients
    running,        \* self.running
    phase,          \* per connection: where its handler thread stands
    authenticated,  \* per connection: handle_client's local authenticated
    dept_info,      \* per connection: handle_client's local dept_info
    local,          \* per connection: values a handler holds between its steps
    writer,         \* the connection holding SQLite's write lock, or 0
    last,           \* what the latest step received, sent and logged
    gui,            \* per connection: the client program at its other end
    main            \* the server's main thread: its position and stop_server's loop

vars == <<clock, entries, sequence, files, stats, clients, running,
          phase, authenticated, dept_info, local, writer, last, gui, main>>

None     == [dept_id |-> 0, dept_name |-> ""]
NoLocal  == [reg |-> 0, entry_id |-> 0, request |-> << >>, waited |-> 0]

\* A client that has connected and sent nothing: what it waits for, the bytes
\* in its socket that it has not read, the bytes its receive loop holds, and
\* the response its latest request path took.
NoGui ==
    [pc |-> "idle", path |-> "", request |-> << >>, asked |-> 0,
     authenticated |-> FALSE, unread |-> << >>, response_data |-> << >>,
     res |-> [for |-> 0, of |-> 0, status |-> "none"]]

\* The main thread inside start_server's accept loop; stop_server not called.
NoMain == [pc |-> "loop", index |-> 0, listed |-> {}, closed |-> {}]
NoResp   == [status |-> "none"]

\* What a step leaves to be observed: the connection, the request it read (a
\* JSON object, or a tag for anything else), the last response it sent, how
\* many responses it sent, and the rows it appended to system_logs.
Obs(op, c, req, resp, sent, log) ==
    [op |-> op, conn |-> c, req |-> req, resp |-> resp, sent |-> sent, log |-> log]

\* ------------------------------------------------------------ log lines
\* log_activity(message): one row of system_logs per call.  The server never
\* reads the table back, so the model keeps the rows of the latest step.
LogLine(text)            == [line |-> text]
LogDept(text, name)      == [line |-> text, dept_name |-> name]
LogEmail(text, email)    == [line |-> text, email |-> email]
LogLogin(text, name, email) == [line |-> text, dept_name |-> name, email |-> email]
LogConn(text, c)         == [line |-> text, address |-> c]
LogSaved(id, name, type) ==
    [line |-> "Data saved successfully", entry_id |-> id, dept_name |-> name,
     entry_type |-> type]
LogSubmit(type, name) ==
    [line |-> "Data submission successful", entry_type |-> type, dept_name |-> name]
LogFailed(message) == [line |-> "Data submission failed", message |-> message]

\* ------------------------------------------------------------- queries
\* Mutant: the WHERE clause without its password_hash term.
MatchingDepartments_EmailOnly(email, hash) ==
    { i \in DOMAIN departments : departments[i].email = email }

\* SELECT dept_id, dept_name FROM departments WHERE email = ? AND password_hash = ?
MatchingDepartments(email, hash) ==
    { i \in DOMAIN departments :
        /\ departments[i].email = email
        /\ departments[i].password_hash = hash }

\* Mutant: a failure message that tells an unknown email from a wrong
\* password.
authenticate_department_Leaky(email, password) ==
    LET found == MatchingDepartments(email, sha256(password))
    IN  IF found # {}
        THEN LET d == departments[CHOOSE i \in found : \A j \in found : i <= j]
             IN  [success |-> TRUE, dept_id |-> d.dept_id, dept_name |-> d.dept_name,
                  message |-> "",
                  log |-> << LogLogin("Successful login", d.dept_name, email) >>]
        ELSE [success |-> FALSE, dept_id |-> 0, dept_name |-> "",
              message |-> IF MatchingDepartments_EmailOnly(email, sha256(password)) = {}
                          THEN "Unknown email" ELSE "Invalid credentials",
              log |-> << LogEmail("Failed login attempt", email) >>]

\* authenticate_department(email, password)
authenticate_department(email, password) ==
    LET found == MatchingDepartments(email, sha256(password))
    IN  IF found # {}
        THEN LET d == departments[CHOOSE i \in found : \A j \in found : i <= j]
             IN  [success |-> TRUE, dept_id |-> d.dept_id, dept_name |-> d.dept_name,
                  message |-> "",
                  log |-> << LogLogin("Successful login", d.dept_name, email) >>]
        ELSE [success |-> FALSE, dept_id |-> 0, dept_name |-> "",
              message |-> "Invalid credentials",
              log |-> << LogEmail("Failed login attempt", email) >>]

\* SELECT dept_name FROM departments WHERE dept_id = ?
DeptName(id) ==
    IF \E i \in DOMAIN departments : departments[i].dept_id = id
    THEN departments[CHOOSE i \in DOMAIN departments : departments[i].dept_id = id].dept_name
    ELSE ""

\* ORDER BY de.created_at DESC over the join of data_entries and departments.
\* The timestamp has a resolution of one second; SQLite scans data_entries in
\* rowid order and its sorter keeps rows of equal key in scan order.
Joined(rows) ==
    { i \in DOMAIN rows : DeptName(rows[i].dept_id) # "" }

Newest(rows, idx) ==
    CHOOSE i \in idx : \A j \in idx :
        \/ rows[i].created_at > rows[j].created_at
        \/ rows[i].created_at = rows[j].created_at /\ i <= j

RECURSIVE OrderByCreatedDesc(_, _)
OrderByCreatedDesc(rows, idx) ==
    IF idx = {} THEN << >>
    ELSE LET i == Newest(rows, idx)
         IN  << rows[i] >> \o OrderByCreatedDesc(rows, idx \ {i})

\* the query without its LIMIT
Limit_Dropped(s, k) == s

\* LIMIT k
Limit(s, k) == SubSeq(s, 1, Min(Len(s), k))

\* get_recent_entries(limit), over the rows of data_entries
RecentOf(rows, limit) ==
    LET top == Limit(OrderByCreatedDesc(rows, Joined(rows)), limit)
    IN  [i \in 1..Len(top) |->
            [dept_name       |-> DeptName(top[i].dept_id),
             entry_type      |-> top[i].entry_type,
             content_preview |-> Prefix(top[i].data_content, PreviewLen),
             created_at      |-> top[i].created_at]]

get_recent_entries(limit) == RecentOf(entries, limit)

\* -------------------------------------------------------------- exports
NoFile == [title |-> ""]

\* SELECT entry_type, COUNT(*) FROM data_entries GROUP BY entry_type
TypeStats(rows) ==
    [t \in { rows[i].entry_type : i \in DOMAIN rows } |->
        Cardinality({ i \in DOMAIN rows : rows[i].entry_type = t })]

\* Mutant: the percentage cut to a whole number.
Percent_Whole(count, total) ==
    IF total > 0 THEN ((count * 100) \div total) * 10 ELSE 0

\* f'{count / total_entries * 100:.1f}', in tenths of a percent: the
\* quotient rounded to the nearest tenth, a tie to the even one.
Percent(count, total) ==
    IF total > 0
    THEN LET q == (count * 1000) \div total
             r == (count * 1000) % total
         IN  IF 2 * r > total \/ (2 * r = total /\ q % 2 = 1) THEN q + 1 ELSE q
    ELSE 0

\* ... ORDER BY COUNT(*) DESC, and the rows written under 'Category',
\* 'Count', 'Percentage'.  Categories of equal count come in the order the
\* database gives them.
RECURSIVE SummaryRows(_, _, _)
SummaryRows(counts, types, total) ==
    IF types = {} THEN << >>
    ELSE LET t == CHOOSE x \in types : \A y \in types : counts[x] >= counts[y]
         IN  << [entry_type |-> t, count |-> counts[t],
                 percentage |-> Percent(counts[t], total)] >>
             \o SummaryRows(counts, types \ {t}, total)

\* SELECT COUNT(DISTINCT dept_id) FROM data_entries
ActiveDepartments(rows) == Cardinality({ rows[i].dept_id : i \in DOMAIN rows })

\* auto_export_enhanced_csv(), run on the rows of data_entries with the files
\* fs in place.  It closes its connection after the summary queries and then
\* runs the recent-activity query on the closed connection: sqlite3 raises
\* ProgrammingError, the handler at the end of the function logs it and
\* returns None.  By then the timestamp-named file holds the header and the
\* category summary; the copy to the latest file is never reached.
auto_export_enhanced_csv(rows, fs) ==
    LET content == [title   |-> "COLLEGE EXTENSION APPLICATION - DATA EXPORT",
                    written |-> clock,
                    total   |-> Len(rows),
                    active  |-> ActiveDepartments(rows),
                    summary |-> SummaryRows(TypeStats(rows), DOMAIN TypeStats(rows),
                                            Len(rows)),
                    parts   |-> << "Export Information", "DATA SUMMARY BY CATEGORY" >>]
    IN  [filename |-> NoFile,
         files    |-> [fs EXCEPT !.timestamped = (clock :> content) @@ @],
         log      |-> << LogLine("Error creating CSV export") >>]

\* export_formatted_report(filename='college_report.csv')
export_formatted_report(rows, fs) ==
    LET recent  == RecentOf(rows, RecentLimit)
        content == [title   |-> "COLLEGE EXTENSION APPLICATION - COMPREHENSIVE REPORT",
                    written |-> clock,
                    depts   |-> [i \in DOMAIN departments |->
                                    LET n == Cardinality({ j \in DOMAIN rows :
                                                 rows[j].dept_id = departments[i].dept_id })
                                    IN  [dept_name |-> departments[i].dept_name,
                                         total     |-> n,
                                         status    |-> IF n > 0 THEN "Active" ELSE "No Data"]],
                    recent  |-> [i \in DOMAIN recent |->
                                    [preview |-> recent[i].content_preview, suffix |-> "..."]]]
    IN  [filename |-> "college_report.csv",
         files    |-> [fs EXCEPT !.report = content],
         log      |-> << >>]

\* ----------------------------------------------------------- the insert
\* What save_department_data hands back and leaves behind.
Saved(ok, id, name, message, rows, seq, st, fs, log) ==
    [success |-> ok, entry_id |-> id, dept_name |-> name, message |-> message,
     entries |-> rows, sequence |-> seq, stats |-> st, files |-> fs, log |-> log]

Refused(message) ==
    Saved(FALSE, 0, "", message, entries, sequence, stats, files, << >>)

\* Mutant: a failed automatic export fails the submission.
save_department_data_ExportFatal(dept_id, entry_type, data_content) ==
    IF dept_id = 0 THEN Refused("Department ID is required")
    ELSE IF ~Truthy(entry_type) \/ ~Truthy(strip(entry_type))
        THEN Refused("Entry type is required")
    ELSE IF ~Truthy(data_content) \/ ~Truthy(strip(data_content))
        THEN Refused("Data content is required")
    ELSE IF Length(data_content) > MaxContent
        THEN Refused("Content too long (max 10,000 characters)")
    ELSE IF DeptName(dept_id) = "" THEN Refused("Invalid department ID")
    ELSE
        LET id   == sequence + 1
            name == DeptName(dept_id)
            rows == Append(entries,
                        Entry(id, dept_id, strip(entry_type), strip(data_content), clock))
            st   == [stats EXCEPT !.data_entries = @ + 1]
            csv  == auto_export_enhanced_csv(rows, files)
        IN  Saved(csv.filename # NoFile, id, name, "System error", rows, id, st, csv.files,
                  << LogSaved(id, name, entry_type) >> \o csv.log
                  \o << IF csv.filename # NoFile
                        THEN LogLine("CSV auto-export successful")
                        ELSE LogLine("CSV auto-export failed") >>)

\* Mutant: the INSERT with the fields as they were passed, not stripped.
save_department_data_StoreRaw(dept_id, entry_type, data_content) ==
    IF dept_id = 0 THEN Refused("Department ID is required")
    ELSE IF ~Truthy(entry_type) \/ ~Truthy(strip(entry_type))
        THEN Refused("Entry type is required")
    ELSE IF ~Truthy(data_content) \/ ~Truthy(strip(data_content))
        THEN Refused("Data content is required")
    ELSE IF Length(data_content) > MaxContent
        THEN Refused("Content too long (max 10,000 characters)")
    ELSE IF DeptName(dept_id) = "" THEN Refused("Invalid department ID")
    ELSE
        LET id   == sequence + 1
            name == DeptName(dept_id)
            rows == Append(entries, Entry(id, dept_id, entry_type, data_content, clock))
            st   == [stats EXCEPT !.data_entries = @ + 1]
            csv  == auto_export_enhanced_csv(rows, files)
        IN  Saved(TRUE, id, name, "", rows, id, st, csv.files,
                  << LogSaved(id, name, entry_type) >> \o csv.log
                  \o << IF csv.filename # NoFile
                        THEN LogLine("CSV auto-export successful")
                        ELSE LogLine("CSV auto-export failed") >>)

\* Mutant: the INSERT without the lookup of the department.
save_department_data_NoDeptCheck(dept_id, entry_type, data_content) ==
    IF dept_id = 0 THEN Refused("Department ID is required")
    ELSE IF ~Truthy(entry_type) \/ ~Truthy(strip(entry_type))
        THEN Refused("Entry type is required")
    ELSE IF ~Truthy(data_content) \/ ~Truthy(strip(data_content))
        THEN Refused("Data content is required")
    ELSE IF Length(data_content) > MaxContent
        THEN Refused("Content too long (max 10,000 characters)")
    ELSE
        LET id   == sequence + 1
            name == DeptName(dept_id)
            rows == Append(entries,
                        Entry(id, dept_id, strip(entry_type), strip(data_content), clock))
            st   == [stats EXCEPT !.data_entries = @ + 1]
            csv  == auto_export_enhanced_csv(rows, files)
        IN  Saved(TRUE, id, name, "", rows, id, st, csv.files,
                  << LogSaved(id, name, entry_type) >> \o csv.log
                  \o << IF csv.filename # NoFile
                        THEN LogLine("CSV auto-export successful")
                        ELSE LogLine("CSV auto-export failed") >>)

\* save_department_data(dept_id, entry_type, data_content), start to return
save_department_data(dept_id, entry_type, data_content) ==
    IF dept_id = 0 THEN Refused("Department ID is required")
    ELSE IF ~Truthy(entry_type) \/ ~Truthy(strip(entry_type))
        THEN Refused("Entry type is required")
    ELSE IF ~Truthy(data_content) \/ ~Truthy(strip(data_content))
        THEN Refused("Data content is required")
    ELSE IF Length(data_content) > MaxContent
        THEN Refused("Content too long (max 10,000 characters)")
    ELSE IF DeptName(dept_id) = "" THEN Refused("Invalid department ID")
    ELSE
        LET id   == sequence + 1
            name == DeptName(dept_id)
            rows == Append(entries,
                        Entry(id, dept_id, strip(entry_type), strip(data_content), clock))
            st   == [stats EXCEPT !.data_entries = @ + 1]
            csv  == auto_export_enhanced_csv(rows, files)
        IN  Saved(TRUE, id, name, "", rows, id, st, csv.files,
                  << LogSaved(id, name, entry_type) >> \o csv.log
                  \o << IF csv.filename # NoFile
                        THEN LogLine("CSV auto-export successful")
                        ELSE LogLine("CSV auto-export failed") >>)

\* ---------------------------------------------------------- the handler
Response(status, message) == [status |-> status, message |-> message]
InvalidAction == Response("error", "Invalid action or authentication required")
InvalidJSON   == Response("error", "Invalid JSON format")

\* Mutant: authenticated and dept_info set anew at the top of every pass.
Pass_LocalsInLoop(c) ==
    [resp |-> NoResp, end |-> "no",
     authenticated |-> FALSE, dept_info |-> None,
     entries |-> entries, sequence |-> sequence, stats |-> stats, files |-> files,
     log |-> << >>]

\* What one pass of handle_client's loop leaves: the response sent, whether
\* the loop goes on ("no"), ends by break ("break") or by an exception that
\* the outer handler catches ("raise"), and the state it writes.
Pass(c) ==
    [resp |-> NoResp, end |-> "no",
     authenticated |-> authenticated[c], dept_info |-> dept_info[c],
     entries |-> entries, sequence |-> sequence, stats |-> stats, files |-> files,
     log |-> << >>]

Reply(c, resp)  == [Pass(c) EXCEPT !.resp = resp]
Raise(c)        == [Pass(c) EXCEPT !.end = "raise"]

\* Mutant: a refused login ends the session.
Login_CloseOnFailure(c, m) ==
    IF ~IsStr(Get(m, "email")) \/ ~IsStr(Get(m, "password")) THEN Raise(c)
    ELSE
        LET email    == strip(Get(m, "email").str)
            password == strip(Get(m, "password").str)
            auth     == authenticate_department(email, password)
        IN  IF ~Truthy(email) \/ ~Truthy(password)
            THEN Reply(c, Response("error", "Email and password required"))
            ELSE IF auth.success
            THEN [Pass(c) EXCEPT
                    !.authenticated = TRUE,
                    !.dept_info = [dept_id |-> auth.dept_id, dept_name |-> auth.dept_name],
                    !.resp = [status    |-> "success",
                              message   |-> "Welcome " \o auth.dept_name \o "!",
                              dept_info |-> [dept_id   |-> auth.dept_id,
                                             dept_name |-> auth.dept_name]],
                    !.log = auth.log]
            ELSE [Pass(c) EXCEPT
                    !.resp = Response("error", auth.message),
                    !.end = "break",
                    !.log = auth.log]

\* action == 'login' and not authenticated
Login(c, m) ==
    IF ~IsStr(Get(m, "email")) \/ ~IsStr(Get(m, "password")) THEN Raise(c)
    ELSE
        LET email    == strip(Get(m, "email").str)
            password == strip(Get(m, "password").str)
            auth     == authenticate_department(email, password)
        IN  IF ~Truthy(email) \/ ~Truthy(password)
            THEN Reply(c, Response("error", "Email and password required"))
            ELSE IF auth.success
            THEN [Pass(c) EXCEPT
                    !.authenticated = TRUE,
                    !.dept_info = [dept_id |-> auth.dept_id, dept_name |-> auth.dept_name],
                    !.resp = [status    |-> "success",
                              message   |-> "Welcome " \o auth.dept_name \o "!",
                              dept_info |-> [dept_id   |-> auth.dept_id,
                                             dept_name |-> auth.dept_name]],
                    !.log = auth.log]
            ELSE [Pass(c) EXCEPT
                    !.resp = Response("error", auth.message),
                    !.log = auth.log]

\* action == 'submit_data' and authenticated
SubmitData(c, m) ==
    IF ~IsStr(Get(m, "entry_type")) \/ ~IsStr(Get(m, "data_content")) THEN Raise(c)
    ELSE
        LET entry_type   == strip(Get(m, "entry_type").str)
            data_content == strip(Get(m, "data_content").str)
            save == save_department_data(dept_info[c].dept_id, entry_type, data_content)
        IN  IF ~Truthy(entry_type) \/ ~Truthy(data_content)
            THEN Reply(c, Response("error", "Both category and content are required"))
            ELSE IF save.success
            THEN [Pass(c) EXCEPT
                    !.resp = [status    |-> "success",
                              message   |-> "Data saved successfully! CSV export completed for data analysis.",
                              entry_id  |-> save.entry_id,
                              dept_name |-> save.dept_name],
                    !.entries = save.entries, !.sequence = save.sequence,
                    !.stats = save.stats, !.files = save.files,
                    !.log = save.log
                            \o << LogSubmit(entry_type, dept_info[c].dept_name) >>]
            ELSE [Pass(c) EXCEPT
                    !.resp = Response("error", save.message),
                    !.entries = save.entries, !.sequence = save.sequence,
                    !.stats = save.stats, !.files = save.files,
                    !.log = save.log \o << LogFailed(save.message) >>]

\* action == 'get_recent' and authenticated
GetRecent(c) ==
    Reply(c, [status |-> "success", data |-> get_recent_entries(RecentLimit)])

\* Mutant: an export that empties data_entries once the report is written.
ExportCsv_Purge(c) ==
    LET report == export_formatted_report(entries, files)
    IN  [Pass(c) EXCEPT
            !.resp = [status   |-> "success",
                      message  |-> "Enhanced report exported to " \o report.filename,
                      filename |-> report.filename],
            !.files = report.files,
            !.entries = << >>]

\* Mutant: an export_csv that counts the report in self.stats['exports'].
ExportCsv_Counted(c) ==
    LET report == export_formatted_report(entries, files)
    IN  [Pass(c) EXCEPT
            !.resp = [status   |-> "success",
                      message  |-> "Enhanced report exported to " \o report.filename,
                      filename |-> report.filename],
            !.files = report.files,
            !.stats = [stats EXCEPT !.exports = @ + 1]]

\* action == 'export_csv' and authenticated
ExportCsv(c) ==
    LET report == export_formatted_report(entries, files)
    IN  [Pass(c) EXCEPT
            !.resp = [status   |-> "success",
                      message  |-> "Enhanced report exported to " \o report.filename,
                      filename |-> report.filename],
            !.files = report.files]

\* action == 'get_stats' and authenticated
GetStats(c) == Reply(c, [status |-> "success", stats |-> stats])

\* Mutant: the export_csv branch without its 'and authenticated'.
Dispatch_ExportOpen(c, m) ==
    IF      ActionIs(m, "login") /\ ~authenticated[c]      THEN Login(c, m)
    ELSE IF ActionIs(m, "submit_data") /\ authenticated[c] THEN SubmitData(c, m)
    ELSE IF ActionIs(m, "get_recent") /\ authenticated[c]  THEN GetRecent(c)
    ELSE IF ActionIs(m, "export_csv")                      THEN ExportCsv(c)
    ELSE IF ActionIs(m, "get_stats") /\ authenticated[c]   THEN GetStats(c)
    ELSE IF ActionIs(m, "disconnect") THEN [Pass(c) EXCEPT !.end = "break"]
    ELSE Reply(c, InvalidAction)

\* Mutant: disconnect honoured on authenticated sessions only.
Dispatch_DisconnectAuthOnly(c, m) ==
    IF      ActionIs(m, "login") /\ ~authenticated[c]      THEN Login(c, m)
    ELSE IF ActionIs(m, "submit_data") /\ authenticated[c] THEN SubmitData(c, m)
    ELSE IF ActionIs(m, "get_recent") /\ authenticated[c]  THEN GetRecent(c)
    ELSE IF ActionIs(m, "export_csv") /\ authenticated[c]  THEN ExportCsv(c)
    ELSE IF ActionIs(m, "get_stats") /\ authenticated[c]   THEN GetStats(c)
    ELSE IF ActionIs(m, "disconnect") /\ authenticated[c]
        THEN [Pass(c) EXCEPT !.end = "break"]
    ELSE Reply(c, InvalidAction)

\* Mutant: the login branch without its 'and not authenticated'.
Dispatch_Relogin(c, m) ==
    IF      ActionIs(m, "login")                           THEN Login(c, m)
    ELSE IF ActionIs(m, "submit_data") /\ authenticated[c] THEN SubmitData(c, m)
    ELSE IF ActionIs(m, "get_recent") /\ authenticated[c]  THEN GetRecent(c)
    ELSE IF ActionIs(m, "export_csv") /\ authenticated[c]  THEN ExportCsv(c)
    ELSE IF ActionIs(m, "get_stats") /\ authenticated[c]   THEN GetStats(c)
    ELSE IF ActionIs(m, "disconnect") THEN [Pass(c) EXCEPT !.end = "break"]
    ELSE Reply(c, InvalidAction)

\* The if/elif chain of handle_client on a parsed JSON object.
Dispatch(c, m) ==
    IF      ActionIs(m, "login") /\ ~authenticated[c]      THEN Login(c, m)
    ELSE IF ActionIs(m, "submit_data") /\ authenticated[c] THEN SubmitData(c, m)
    ELSE IF ActionIs(m, "get_recent") /\ authenticated[c]  THEN GetRecent(c)
    ELSE IF ActionIs(m, "export_csv") /\ authenticated[c]  THEN ExportCsv(c)
    ELSE IF ActionIs(m, "get_stats") /\ authenticated[c]   THEN GetStats(c)
    ELSE IF ActionIs(m, "disconnect") THEN [Pass(c) EXCEPT !.end = "break"]
    ELSE Reply(c, InvalidAction)

\* -------------------------------------------------------------- requests
LoginMsg(email, password) ==
    [action |-> JStr(Lit("login")), email |-> JStr(email), password |-> JStr(password)]
SubmitMsg(entry_type, data_content) ==
    [action |-> JStr(Lit("submit_data")), entry_type |-> JStr(entry_type),
     data_content |-> JStr(data_content)]
ActionMsg(name) == [action |-> JStr(Lit(name))]

AuthOnly == { "submit_data", "get_recent", "export_csv", "get_stats" }

Emails    == { Lit("cs@college.edu"), Pad(Lit("cs@college.edu"), 1, 1),
               Lit("nobody@college.edu") }
Passwords == { Lit("cs_password123"), Lit("wrongpass") }

Category == Lit("Student Records")
Short    == Str("A", 50)

LoginCS   == LoginMsg(Lit("cs@college.edu"), Lit("cs_password123"))
LoginMath == LoginMsg(Lit("math@college.edu"), Lit("math_password123"))

\* Logins: exact, padded with blanks, unknown, wrong, and with a field that
\* is blank or missing.
LoginMsgs ==
    { LoginMsg(e, p) : e \in Emails, p \in Passwords }
    \cup { LoginMath,
           LoginMsg(Lit("cs@college.edu"), Pad(Lit("cs_password123"), 0, 1)),
           LoginMsg(Pad(Empty, 1, 0), Lit("cs_password123")),
           [action |-> JStr(Lit("login")), email |-> JStr(Lit("cs@college.edu"))] }
SimpleMsgs ==
    { ActionMsg(a) : a \in (AuthOnly \ {"submit_data"}) \cup {"disconnect", "ping"} }

\* The requests of the session protocol: every login, every bare action, a
\* valid submit and one without content.
Requests ==
    LoginMsgs \cup SimpleMsgs \cup { SubmitMsg(Category, Short), SubmitMsg(Category, Empty) }

\* -------------------------------------------------------------- actions
Idle == Obs("tick", 0, << >>, NoResp, 0, << >>)

Remove(s, c) == SelectSeq(s, LAMBDA x : x # c)

\* Rows inserted in this run.
NewRows == Cardinality({ i \in DOMAIN entries : entries[i].created_at >= 0 })

Boot(rows) ==
    /\ clock = 0
    /\ entries = rows
    /\ sequence = Len(entries)
    /\ files = [timestamped |-> << >>, latest |-> NoFile, report |-> NoFile]
    /\ stats = [connections |-> 0, data_entries |-> 0, exports |-> 0]
    /\ clients = << >>
    /\ running = FALSE
    /\ phase = [c \in Conns |-> "new"]
    /\ authenticated = [c \in Conns |-> FALSE]
    /\ dept_info = [c \in Conns |-> None]
    /\ local = [c \in Conns |-> NoLocal]
    /\ writer = 0
    /\ last = Idle
    /\ gui = [c \in Conns |-> NoGui]
    /\ main = NoMain

\* The server starts on the database 1_setup_database.py has just made.
Init == Boot(FreshStore)

\* The server starts on that database, or on one earlier runs have filled.
InitStore == \E rows \in { FreshStore, UsedStore } : Boot(rows)

\* One second passes.
Tick ==
    /\ clock < MaxClock
    /\ clock' = clock + 1
    /\ last' = Idle
    /\ UNCHANGED <<gui, main, entries, sequence, files, stats, clients, running,
                   phase, authenticated, dept_info, local, writer>>

\* start_server, up to its accept loop
start_server ==
    /\ ~running
    /\ running' = TRUE
    /\ last' = Obs("start_server", 0, << >>, NoResp, 0, << >>)
    /\ UNCHANGED <<gui, main, clock, entries, sequence, files, stats, clients,
                   phase, authenticated, dept_info, local, writer>>

\* Mutant: an accept loop that serves the connection itself and accepts
\* again when no connection is being served.
accept_Inline(c) ==
    /\ running
    /\ phase[c] = "new"
    /\ \A d \in Conns : d < c => phase[d] = "closed"
    /\ clients' = Append(clients, c)
    /\ phase' = [phase EXCEPT ![c] = "accepted"]
    /\ last' = Obs("accept", c, << >>, NoResp, 0, << >>)
    /\ UNCHANGED <<gui, main, clock, entries, sequence, files, stats, running,
                   authenticated, dept_info, local, writer>>

\* One pass of the accept loop: accept, append to self.clients, start the
\* handler thread.  Connections are numbered in the order they are accepted.
accept(c) ==
    /\ running
    /\ phase[c] = "new"
    /\ \A d \in Conns : d < c => phase[d] # "new"
    /\ clients' = Append(clients, c)
    /\ phase' = [phase EXCEPT ![c] = "accepted"]
    /\ last' = Obs("accept", c, << >>, NoResp, 0, << >>)
    /\ UNCHANGED <<gui, main, clock, entries, sequence, files, stats, running,
                   authenticated, dept_info, local, writer>>

\* handle_client, from entry to the first recv
handle_client(c) ==
    /\ phase[c] = "accepted"
    /\ stats' = [stats EXCEPT !.connections = @ + 1]
    /\ phase' = [phase EXCEPT ![c] = "open"]
    /\ last' = Obs("handle_client", c, << >>, NoResp, 0, << LogConn("New connection", c) >>)
    /\ UNCHANGED <<gui, main, clock, entries, sequence, files, clients, running,
                   authenticated, dept_info, local, writer>>

\* Mutant: one window for the whole connection, not restarted by a message.
settimeout_Carried(waited) == waited

\* client_socket.settimeout(60.0) at the top of every pass, and the recv
\* after it: the seconds waited in the read that starts now.
settimeout(waited) == 0

\* Mutant: authenticated and dept_info kept on the server object, one for
\* all handlers.
Finish_SharedSession(c, op, req, out, sent) ==
    LET ended == out.end # "no"
    IN  /\ phase' = [phase EXCEPT ![c] = IF ended THEN "closed" ELSE "open"]
        /\ clients' = IF ended THEN Remove(clients, c) ELSE clients
        /\ authenticated' = [d \in Conns |-> ~ended /\ out.authenticated]
        /\ dept_info' = [d \in Conns |-> IF ended THEN None ELSE out.dept_info]
        /\ entries' = out.entries
        /\ sequence' = out.sequence
        /\ stats' = out.stats
        /\ files' = out.files
        /\ last' = Obs(op, c, req, out.resp, sent,
                       out.log
                       \o (IF out.end = "raise"
                           THEN << LogConn("Client handler error", c) >> ELSE << >>)
                       \o (IF ended THEN << LogConn("Connection closed", c) >> ELSE << >>))
        /\ local' = [local EXCEPT ![c].waited = IF ended THEN @ ELSE settimeout(@)]
        /\ UNCHANGED <<gui, main, clock, running, writer>>

\* Mutant: the socket taken off self.clients at the end of the loop, not in
\* the finally block.
Finish_RemoveAfterLoop(c, op, req, out, sent) ==
    LET ended == out.end # "no"
    IN  /\ phase' = [phase EXCEPT ![c] = IF ended THEN "closed" ELSE "open"]
        /\ clients' = IF out.end = "break" THEN Remove(clients, c) ELSE clients
        /\ authenticated' = [authenticated EXCEPT ![c] = ~ended /\ out.authenticated]
        /\ dept_info' = [dept_info EXCEPT ![c] = IF ended THEN None ELSE out.dept_info]
        /\ entries' = out.entries
        /\ sequence' = out.sequence
        /\ stats' = out.stats
        /\ files' = out.files
        /\ last' = Obs(op, c, req, out.resp, sent,
                       out.log
                       \o (IF out.end = "raise"
                           THEN << LogConn("Client handler error", c) >> ELSE << >>)
                       \o (IF ended THEN << LogConn("Connection closed", c) >> ELSE << >>))
        /\ local' = [local EXCEPT ![c].waited = IF ended THEN @ ELSE settimeout(@)]
        /\ UNCHANGED <<gui, main, clock, running, writer>>

\* The end of handle_client: the except clause and the finally block.
Finish(c, op, req, out, sent) ==
    LET ended == out.end # "no"
    IN  /\ phase' = [phase EXCEPT ![c] = IF ended THEN "closed" ELSE "open"]
        /\ clients' = IF ended THEN Remove(clients, c) ELSE clients
        /\ authenticated' = [authenticated EXCEPT ![c] = ~ended /\ out.authenticated]
        /\ dept_info' = [dept_info EXCEPT ![c] = IF ended THEN None ELSE out.dept_info]
        /\ entries' = out.entries
        /\ sequence' = out.sequence
        /\ stats' = out.stats
        /\ files' = out.files
        /\ last' = Obs(op, c, req, out.resp, sent,
                       out.log
                       \o (IF out.end = "raise"
                           THEN << LogConn("Client handler error", c) >> ELSE << >>)
                       \o (IF ended THEN << LogConn("Connection closed", c) >> ELSE << >>))
        /\ local' = [local EXCEPT ![c].waited = IF ended THEN @ ELSE settimeout(@)]
        /\ UNCHANGED <<gui, main, clock, running, writer>>

\* One pass of the loop on a request that one recv hands over whole:
\* json.loads, the dispatch, the send.
Handle(c, m) ==
    /\ phase[c] = "open"
    /\ EncLen(m) <= RecvBuf
    /\ Finish(c, "request", m, Dispatch(c, m),
              IF Dispatch(c, m).resp = NoResp THEN 0 ELSE 1)

\* A request longer than the buffer: each recv hands over a piece of it,
\* json.loads raises JSONDecodeError on each piece and the handler answers
\* each with an error.
HandlePieces(c, m) ==
    /\ phase[c] = "open"
    /\ EncLen(m) > RecvBuf
    /\ Finish(c, "pieces", m, Reply(c, InvalidJSON), Reads(m))

\* recv returns b'': the peer closed the connection.
PeerClosed(c) ==
    /\ phase[c] = "open"
    /\ Finish(c, "eof", << >>, [Pass(c) EXCEPT !.end = "break"], 0)

\* A run inserts at most cap rows.
Room(c, m, cap) == Dispatch(c, m).sequence # sequence => NewRows < cap

\* --------------------------------------------------- the session protocol
Next ==
    \/ start_server
    \/ \E c \in Conns : accept(c)
    \/ \E c \in Conns : handle_client(c)
    \/ \E c \in Conns, m \in Requests : Room(c, m, MaxNew) /\ Handle(c, m)
    \/ \E c \in Conns : PeerClosed(c)

Spec == Init /\ [][Next]_vars

\* ------------------------------------------------------ the submit runs
Faculty == Lit("Faculty Data")
Blank   == Pad(Empty, 2, 0)

\* Submits: valid ones (plain, padded with blanks, filling one read to the
\* last byte, one byte more than a read, as long as the limit allows), ones
\* without a category or without content, and one over the limit.
SubmitMsgs ==
    { SubmitMsg(Category, Short),
      SubmitMsg(Pad(Faculty, 1, 1), Pad(Short, 1, 1)),
      SubmitMsg(Category, Str("A", RecvBuf - EncLen(SubmitMsg(Category, Empty)))),
      SubmitMsg(Category, Str("A", RecvBuf - EncLen(SubmitMsg(Category, Empty)) + 1)),
      SubmitMsg(Category, Str("A", MaxContent)),
      SubmitMsg(Category, Str("A", MaxContent + 1)),
      SubmitMsg(Category, Empty),
      SubmitMsg(Category, Blank),
      SubmitMsg(Empty, Short),
      SubmitMsg(Blank, Short),
      [action |-> JStr(Lit("submit_data")), entry_type |-> JStr(Category)] }

SubmitRequests == { LoginCS, LoginMath } \cup SubmitMsgs

\* The submit runs have one client, the first connection.
NextSubmit ==
    \/ Tick
    \/ start_server
    \/ accept(1)
    \/ handle_client(1)
    \/ \E m \in SubmitRequests : HandlePieces(1, m)
    \/ \E m \in SubmitRequests : Room(1, m, MaxRows) /\ Handle(1, m)

SpecSubmit == Init /\ [][NextSubmit]_vars

\* ------------------------------------------------------- the store runs
Long == Str("B", PreviewLen + 50)

StoreRequests ==
    { LoginCS, LoginMath, SubmitMsg(Category, Short), SubmitMsg(Faculty, Long),
      ActionMsg("get_recent") }

\* The store runs have one client, the first connection.
NextStore ==
    \/ Tick
    \/ start_server
    \/ accept(1)
    \/ handle_client(1)
    \/ \E m \in StoreRequests : Room(1, m, StoreRows) /\ Handle(1, m)

SpecStore == InitStore /\ [][NextStore]_vars

\* ---------------------------------------------------- the threaded runs
\* The handler threads step by step: the two halves of each `+= 1` on
\* self.stats, and the INSERT apart from its commit.

\* handle_client line 354, the read of self.stats['connections']
ReadConnections(c) ==
    /\ phase[c] = "accepted"
    /\ local' = [local EXCEPT ![c].reg = stats.connections]
    /\ phase' = [phase EXCEPT ![c] = "starting"]
    /\ last' = Idle
    /\ UNCHANGED <<gui, main, clock, entries, sequence, files, stats, clients, running,
                   authenticated, dept_info, writer>>

\* handle_client line 354, the store, and on to the first recv
WriteConnections(c) ==
    /\ phase[c] = "starting"
    /\ stats' = [stats EXCEPT !.connections = local[c].reg + 1]
    /\ phase' = [phase EXCEPT ![c] = "open"]
    /\ last' = Obs("handle_client", c, << >>, NoResp, 0, << LogConn("New connection", c) >>)
    /\ UNCHANGED <<gui, main, clock, entries, sequence, files, clients, running,
                   authenticated, dept_info, local, writer>>

\* Rows inserted, committed or not, and rows about to be.
Claimed ==
    Len(entries) + Cardinality({ c \in Conns : phase[c] \in { "insert", "commit" } })

\* Mutant: a handler that reads its socket again while the automatic
\* export of the request before is still running.
RecvSubmit_Pipelined(c, m) ==
    /\ phase[c] \in { "open", "export" }
    /\ authenticated[c]
    /\ EncLen(m) <= RecvBuf
    /\ save_department_data(dept_info[c].dept_id,
                            strip(Text(m, "entry_type")),
                            strip(Text(m, "data_content"))).success
    /\ Claimed < ConcRows
    /\ local' = [local EXCEPT ![c] = [reg |-> 0, entry_id |-> 0, request |-> m, waited |-> 0]]
    /\ phase' = [phase EXCEPT ![c] = "insert"]
    /\ last' = Idle
    /\ UNCHANGED <<gui, main, clock, entries, sequence, files, stats, clients, running,
                   authenticated, dept_info, writer>>

\* recv, json.loads and the checks of a valid submit_data, up to the INSERT
RecvSubmit(c, m) ==
    /\ phase[c] = "open"
    /\ authenticated[c]
    /\ EncLen(m) <= RecvBuf
    /\ save_department_data(dept_info[c].dept_id,
                            strip(Text(m, "entry_type")),
                            strip(Text(m, "data_content"))).success
    /\ Claimed < ConcRows
    /\ local' = [local EXCEPT ![c] = [reg |-> 0, entry_id |-> 0, request |-> m, waited |-> 0]]
    /\ phase' = [phase EXCEPT ![c] = "insert"]
    /\ last' = Idle
    /\ UNCHANGED <<gui, main, clock, entries, sequence, files, stats, clients, running,
                   authenticated, dept_info, writer>>

\* Mutant: an INSERT that does not wait for the write lock.
WriteLockFree_Unchecked == TRUE

\* SQLite lets one connection at a time write: the INSERT waits while
\* another connection's transaction is open.
WriteLockFree == writer = 0

\* cursor.execute(INSERT) and cursor.lastrowid: the row is in this
\* connection's open transaction and has the next AUTOINCREMENT id.
InsertRow(c) ==
    /\ phase[c] = "insert"
    /\ WriteLockFree
    /\ writer' = c
    /\ local' = [local EXCEPT ![c].entry_id = sequence + 1]
    /\ phase' = [phase EXCEPT ![c] = "commit"]
    /\ last' = Idle
    /\ UNCHANGED <<gui, main, clock, entries, sequence, files, stats, clients, running,
                   authenticated, dept_info>>

\* conn.commit()
Commit(c) ==
    /\ phase[c] = "commit"
    /\ entries' = Append(entries,
                      Entry(local[c].entry_id, dept_info[c].dept_id,
                            strip(Text(local[c].request, "entry_type")),
                            strip(Text(local[c].request, "data_content")), clock))
    /\ sequence' = local[c].entry_id
    /\ writer' = 0
    /\ phase' = [phase EXCEPT ![c] = "count"]
    /\ last' = Idle
    /\ UNCHANGED <<gui, main, clock, files, stats, clients, running,
                   authenticated, dept_info, local>>

\* save_department_data line 93, the read of self.stats['data_entries']
ReadDataEntries(c) ==
    /\ phase[c] = "count"
    /\ local' = [local EXCEPT ![c].reg = stats.data_entries]
    /\ phase' = [phase EXCEPT ![c] = "counted"]
    /\ last' = Idle
    /\ UNCHANGED <<gui, main, clock, entries, sequence, files, stats, clients, running,
                   authenticated, dept_info, writer>>

\* save_department_data line 93, the store, and the log line after it
WriteDataEntries(c) ==
    /\ phase[c] = "counted"
    /\ stats' = [stats EXCEPT !.data_entries = local[c].reg + 1]
    /\ phase' = [phase EXCEPT ![c] = "export"]
    /\ last' = Obs("write_data_entries", c, << >>, NoResp, 0,
                   << LogSaved(local[c].entry_id, dept_info[c].dept_name,
                               strip(Text(local[c].request, "entry_type"))) >>)
    /\ UNCHANGED <<gui, main, clock, entries, sequence, files, clients, running,
                   authenticated, dept_info, local, writer>>

\* The rest of save_department_data and of the submit_data branch: the
\* automatic export, the response, the log line.
ExportAndReply(c) ==
    LET csv == auto_export_enhanced_csv(entries, files)
    IN  /\ phase[c] = "export"
        /\ files' = csv.files
        /\ phase' = [phase EXCEPT ![c] = "open"]
        /\ last' = Obs("request", c, local[c].request,
                       [status    |-> "success",
                        message   |-> "Data saved successfully! CSV export completed for data analysis.",
                        entry_id  |-> local[c].entry_id,
                        dept_name |-> dept_info[c].dept_name],
                       1,
                       csv.log
                       \o << IF csv.filename # NoFile
                             THEN LogLine("CSV auto-export successful")
                             ELSE LogLine("CSV auto-export failed") >>
                       \o << LogSubmit(strip(Text(local[c].request, "entry_type")),
                                       dept_info[c].dept_name) >>)
        /\ UNCHANGED <<gui, main, clock, entries, sequence, stats, clients, running,
                       authenticated, dept_info, local, writer>>

\* The threaded runs have two clients, the first two connections.
Pair == { 1, 2 }

NextConc ==
    \/ start_server
    \/ \E c \in Pair : accept(c)
    \/ \E c \in Pair : ReadConnections(c)
    \/ \E c \in Pair : WriteConnections(c)
    \/ \E c \in Pair, m \in { LoginCS, LoginMath } : Handle(c, m)
    \/ \E c \in Pair : RecvSubmit(c, SubmitMsg(Category, Short))
    \/ \E c \in Pair : InsertRow(c)
    \/ \E c \in Pair : Commit(c)
    \/ \E c \in Pair : ReadDataEntries(c)
    \/ \E c \in Pair : WriteDataEntries(c)
    \/ \E c \in Pair : ExportAndReply(c)

SpecConc == Init /\ [][NextConc]_vars

\* ---------------------------------------------------- the decoding runs
\* What a recv can hand over besides a JSON object: text that is not JSON,
\* a JSON value that is not an object, bytes that are not UTF-8.
NotJSON   == { [text |-> "not json"], [text |-> "   "] }
NotObject == { [json |-> "array"], [json |-> "number"], [json |-> "string"],
               [json |-> "null"] }
NotText   == [bytes |-> "not utf-8"]

\* Mutant: a JSONDecodeError left to the handler around the loop.
DecodeError_Uncaught(c) == Raise(c)

\* except json.JSONDecodeError: the error response, and the loop goes on
DecodeError(c) == Reply(c, InvalidJSON)

\* One pass of the loop on text json.loads cannot parse.
HandleText(c, t) ==
    /\ phase[c] = "open"
    /\ Finish(c, "malformed", t, DecodeError(c),
              IF DecodeError(c).resp = NoResp THEN 0 ELSE 1)

\* One pass of the loop on a JSON array, number, string or null:
\* message.get raises AttributeError, which only the handler around the
\* loop catches.
HandleValue(c, v) ==
    /\ phase[c] = "open"
    /\ Finish(c, "request", v, Raise(c), 0)

\* recv(1024).decode('utf-8') on bytes that are not UTF-8: the
\* UnicodeDecodeError is neither socket.timeout nor ConnectionResetError
\* and reaches the handler around the loop.
HandleBytes(c) ==
    /\ phase[c] = "open"
    /\ Finish(c, "undecodable", NotText, Raise(c), 0)

\* recv raises socket.timeout after 60 seconds without data.
Timeout(c) ==
    /\ phase[c] = "open"
    /\ Finish(c, "timeout", << >>,
              [Pass(c) EXCEPT !.end = "break",
                              !.log = << LogConn("Client timed out after 60 seconds", c) >>], 0)

\* recv raises ConnectionResetError.
Reset(c) ==
    /\ phase[c] = "open"
    /\ Finish(c, "reset", << >>,
              [Pass(c) EXCEPT !.end = "break",
                              !.log = << LogConn("Client disconnected unexpectedly", c) >>], 0)

Huge == Str("A", 2 * RecvBuf)

\* Requests with a field that is not a string, among well-formed ones.
DecodeRequests ==
    { LoginCS,
      [action |-> JStr(Lit("login")), email |-> JNum, password |-> JStr(Lit("cs_password123"))],
      SubmitMsg(Category, Short),
      SubmitMsg(Category, Huge),
      [action |-> JStr(Lit("submit_data")), entry_type |-> JStr(Category), data_content |-> JNum],
      [action |-> JNum],
      ActionMsg("get_stats"),
      ActionMsg("disconnect") }

\* The decoding runs have two clients, the first two connections.
NextDecode ==
    \/ start_server
    \/ \E c \in Pair : accept(c)
    \/ \E c \in Pair : handle_client(c)
    \/ \E c \in Pair, m \in DecodeRequests : Room(c, m, DecodeRows) /\ Handle(c, m)
    \/ \E c \in Pair, m \in DecodeRequests : HandlePieces(c, m)
    \/ \E c \in Pair, t \in NotJSON : HandleText(c, t)
    \/ \E c \in Pair, v \in NotObject : HandleValue(c, v)
    \/ \E c \in Pair : HandleBytes(c)
    \/ \E c \in Pair : Timeout(c)
    \/ \E c \in Pair : Reset(c)
    \/ \E c \in Pair : PeerClosed(c)

SpecDecode == Init /\ [][NextDecode]_vars

\* ------------------------------------------------------ the export runs
ExportRequests ==
    { LoginCS, LoginMath, SubmitMsg(Category, Short), SubmitMsg(Faculty, Long),
      ActionMsg("export_csv") }

\* The export runs have one client, the first connection.
NextExport ==
    \/ Tick
    \/ start_server
    \/ accept(1)
    \/ handle_client(1)
    \/ \E m \in ExportRequests : Room(1, m, ExportRows) /\ Handle(1, m)

SpecExport == InitStore /\ [][NextExport]_vars

\* ----------------------------------------------------- the logging runs
\* The handler with a system_logs table that can or cannot be written.

\* Mutant: log_activity without its try/except around the database write.
log_activity_Unguarded(lines, up) ==
    [written |-> IF up THEN lines ELSE << >>,
     raised  |-> ~up /\ lines # << >>]

\* log_activity(message), for the lines one step logs: the rows that reach
\* system_logs, and whether an exception leaves the function.  The write
\* is inside try/except: pass.
log_activity(lines, up) ==
    [written |-> IF up THEN lines ELSE << >>,
     raised  |-> FALSE]

\* handle_client, from entry to the first recv, logging through
\* log_activity.  An exception at line 355 is outside every try: it would
\* end the thread before the loop.
OpenLogged(c, up) ==
    LET note == log_activity(<< LogConn("New connection", c) >>, up)
    IN  /\ phase[c] = "accepted"
        /\ stats' = [stats EXCEPT !.connections = @ + 1]
        /\ phase' = [phase EXCEPT ![c] = IF note.raised THEN "closed" ELSE "open"]
        /\ last' = Obs("handle_client", c, << >>, NoResp, 0, note.written)
        /\ UNCHANGED <<gui, main, clock, entries, sequence, files, clients, running,
                       authenticated, dept_info, local, writer>>

\* The end of one pass of the loop, logging through log_activity.  An
\* exception from it would pass every handler on its way out (each logs
\* again) and end the thread with no response sent.
FinishLogged(c, op, req, out, sent, up) ==
    LET note  == log_activity(out.log, up)
        ended == out.end # "no" \/ note.raised
        tail  == log_activity((IF out.end = "raise"
                               THEN << LogConn("Client handler error", c) >> ELSE << >>)
                              \o (IF ended THEN << LogConn("Connection closed", c) >>
                                  ELSE << >>), up)
    IN  /\ phase' = [phase EXCEPT ![c] = IF ended THEN "closed" ELSE "open"]
        /\ clients' = IF ended THEN Remove(clients, c) ELSE clients
        /\ authenticated' = [authenticated EXCEPT ![c] = ~ended /\ out.authenticated]
        /\ dept_info' = [dept_info EXCEPT ![c] = IF ended THEN None ELSE out.dept_info]
        /\ entries' = out.entries
        /\ sequence' = out.sequence
        /\ stats' = out.stats
        /\ files' = out.files
        /\ last' = Obs(op, c, req,
                       IF note.raised THEN NoResp ELSE out.resp,
                       IF note.raised THEN 0 ELSE sent,
                       note.written \o tail.written)
        /\ local' = [local EXCEPT ![c].waited = IF ended THEN @ ELSE settimeout(@)]
        /\ UNCHANGED <<gui, main, clock, running, writer>>

\* One pass of the loop on a request, with the log table up or down.
HandleLogged(c, m, up) ==
    /\ phase[c] = "open"
    /\ EncLen(m) <= RecvBuf
    /\ FinishLogged(c, "request", m, Dispatch(c, m),
                    IF Dispatch(c, m).resp = NoResp THEN 0 ELSE 1, up)

LogRequests ==
    { LoginCS, LoginMsg(Lit("cs@college.edu"), Lit("wrongpass")),
      SubmitMsg(Category, Short), ActionMsg("export_csv"), ActionMsg("disconnect") }

\* The logging runs have two clients, the first two connections.
NextLog ==
    \/ start_server
    \/ \E c \in Pair : accept(c)
    \/ \E c \in Pair, up \in BOOLEAN : OpenLogged(c, up)
    \/ \E c \in Pair, m \in LogRequests, up \in BOOLEAN :
            Room(c, m, LogRows) /\ HandleLogged(c, m, up)

SpecLog == Init /\ [][NextLog]_vars

\* ------------------------------------------------------- the fault runs
\* The threaded runs with calls that raise: accept, the INSERT, the commit.

\* Mutant: an accept loop that ends at the first exception.
AcceptFails_Fatal ==
    /\ running
    /\ running' = FALSE
    /\ last' = Obs("accept_error", 0, << >>, NoResp, 0,
                   << LogLine("Error accepting connection") >>)
    /\ UNCHANGED <<gui, main, clock, entries, sequence, files, stats, clients,
                   phase, authenticated, dept_info, local, writer>>

\* One pass of the accept loop in which accept() raises: the except clause
\* logs and the while loop goes round.
AcceptFails ==
    /\ running
    /\ running' = running
    /\ last' = Obs("accept_error", 0, << >>, NoResp, 0,
                   << LogLine("Error accepting connection") >>)
    /\ UNCHANGED <<gui, main, clock, entries, sequence, files, stats, clients,
                   phase, authenticated, dept_info, local, writer>>

\* The response and the log line of a submit whose save raised sqlite3.Error.
DatabaseError(c) ==
    Obs("db_error", c, local[c].request,
        Response("error", "Database error"), 1,
        << LogFailed("Database error") >>)

\* cursor.execute(INSERT) raises sqlite3.Error (the database stayed locked
\* for the busy timeout, the disk is full): rollback, close, error result.
InsertFails(c) ==
    /\ phase[c] = "insert"
    /\ phase' = [phase EXCEPT ![c] = "open"]
    /\ last' = DatabaseError(c)
    /\ UNCHANGED <<gui, main, clock, entries, sequence, files, stats, clients, running,
                   authenticated, dept_info, local, writer>>

\* Mutant: a failed commit whose row stays.
CommitFails_NoRollback(c) ==
    /\ phase[c] = "commit"
    /\ entries' = Append(entries,
                      Entry(local[c].entry_id, dept_info[c].dept_id,
                            strip(Text(local[c].request, "entry_type")),
                            strip(Text(local[c].request, "data_content")), clock))
    /\ sequence' = local[c].entry_id
    /\ writer' = 0
    /\ phase' = [phase EXCEPT ![c] = "open"]
    /\ last' = DatabaseError(c)
    /\ UNCHANGED <<gui, main, clock, files, stats, clients, running,
                   authenticated, dept_info, local>>

\* conn.commit() raises sqlite3.Error: conn.rollback() drops the row and
\* the sequence it took, the write lock is released, error result.
CommitFails(c) ==
    /\ phase[c] = "commit"
    /\ entries' = entries
    /\ sequence' = sequence
    /\ writer' = 0
    /\ phase' = [phase EXCEPT ![c] = "open"]
    /\ last' = DatabaseError(c)
    /\ UNCHANGED <<gui, main, clock, files, stats, clients, running,
                   authenticated, dept_info, local>>

\* recv of a valid submit in the fault runs
RecvFault(c) ==
    /\ Claimed < FaultRows
    /\ RecvSubmit(c, SubmitMsg(Category, Short))

\* A handler thread's steps between two reads of its socket.
Steps(c) ==
    \/ ReadConnections(c)
    \/ WriteConnections(c)
    \/ InsertRow(c)
    \/ InsertFails(c)
    \/ Commit(c)
    \/ CommitFails(c)
    \/ ReadDataEntries(c)
    \/ WriteDataEntries(c)
    \/ ExportAndReply(c)

NextFault ==
    \/ start_server
    \/ \E c \in Pair : accept(c)
    \/ AcceptFails
    \/ \E c \in Pair : ReadConnections(c)
    \/ \E c \in Pair : WriteConnections(c)
    \/ \E c \in Pair : Handle(c, LoginCS)
    \/ \E c \in Pair : RecvFault(c)
    \/ \E c \in Pair : InsertRow(c)
    \/ \E c \in Pair : InsertFails(c)
    \/ \E c \in Pair : Commit(c)
    \/ \E c \in Pair : CommitFails(c)
    \/ \E c \in Pair : ReadDataEntries(c)
    \/ \E c \in Pair : WriteDataEntries(c)
    \/ \E c \in Pair : ExportAndReply(c)

SpecFault == Init /\ [][NextFault]_vars

\* The accept loop is a thread of its own that calls accept() again after
\* every pass: a pending connection is accepted.  The second handler's
\* thread is scheduled and its database calls return (the busy timeout
\* bounds the wait for the write lock).  Nothing is assumed of the first
\* handler: it may stay in any call for ever.
FairFault ==
    /\ SpecFault
    /\ WF_vars(\E c \in Pair : accept(c))
    /\ WF_vars(Steps(2))

\* -------------------------------------------------------- the save runs
\* save_department_data called for any department id, of a department or
\* not, with fields that pass its validation or not.

\* The arguments of one call.
SaveArgs(dept_id, entry_type, data_content) ==
    [dept_id |-> dept_id, entry_type |-> entry_type, data_content |-> data_content]

\* Department ids: none, two of departments, one past the last department.
SaveDepts    == { 0, 1, 2, Len(SampleDepartments) + 1 }
SaveTypes    == { Category, Pad(Category, 1, 1), Blank }
SaveContents == { Short, Pad(Short, 2, 1), Empty, Str("A", MaxContent + 1) }

\* One call of save_department_data and what it returns.
Save(dept_id, entry_type, data_content) ==
    LET save == save_department_data(dept_id, entry_type, data_content)
    IN  /\ save.success => NewRows < SaveRows
        /\ entries' = save.entries
        /\ sequence' = save.sequence
        /\ stats' = save.stats
        /\ files' = save.files
        /\ last' = Obs("save", 0, SaveArgs(dept_id, entry_type, data_content),
                       [success |-> save.success, entry_id |-> save.entry_id,
                        dept_name |-> save.dept_name, message |-> save.message],
                       0, save.log)
        /\ UNCHANGED <<gui, main, clock, clients, running, phase, authenticated, dept_info,
                       local, writer>>

NextSave ==
    \/ Tick
    \/ \E d \in SaveDepts, t \in SaveTypes, x \in SaveContents : Save(d, t, x)

SpecSave == InitStore /\ [][NextSave]_vars

\* -------------------------------------------------------- the idle runs
\* One client and the seconds its handler has waited in recv.

\* A second passes with the handler in recv and nothing to read.
Wait(c) ==
    /\ phase[c] = "open"
    /\ local[c].waited < IdleTimeout
    /\ local' = [local EXCEPT ![c].waited = @ + 1]
    /\ last' = Idle
    /\ UNCHANGED <<gui, main, clock, entries, sequence, files, stats, clients, running,
                   phase, authenticated, dept_info, writer>>

\* recv returns a request before the timeout has run out.
HandleInTime(c, m) ==
    /\ local[c].waited < IdleTimeout
    /\ Handle(c, m)

\* recv raises socket.timeout when the timeout has run out.
TimeoutAt(c) ==
    /\ local[c].waited = IdleTimeout
    /\ Timeout(c)

IdleRequests ==
    { LoginCS, LoginMsg(Lit("cs@college.edu"), Lit("wrongpass")),
      ActionMsg("get_stats"), ActionMsg("ping"), ActionMsg("disconnect") }

\* The idle runs have one client, the first connection.
NextIdle ==
    \/ start_server
    \/ accept(1)
    \/ handle_client(1)
    \/ Wait(1)
    \/ \E m \in IdleRequests : HandleInTime(1, m)
    \/ TimeoutAt(1)

SpecIdle == Init /\ [][NextIdle]_vars

\* Time passes while the handler is in recv, and recv returns when its
\* timeout has run out.
FairIdle == SpecIdle /\ WF_vars(Wait(1) \/ TimeoutAt(1))

\* ------------------------------------------------------ the recent runs
\* One department fills a fresh store past the limit of get_recent within
\* one second.
RecentRequests ==
    { LoginCS, SubmitMsg(Category, Short), SubmitMsg(Faculty, Long),
      ActionMsg("get_recent") }

\* The recent runs have one client, the first connection.
NextRecent ==
    \/ start_server
    \/ accept(1)
    \/ handle_client(1)
    \/ \E m \in RecentRequests : Room(1, m, RecentRows) /\ Handle(1, m)

SpecRecent == Init /\ [][NextRecent]_vars

\* ----------------------------------------------------- the writing runs
\* The threaded runs with the automatic export in two steps: its queries
\* and the open of its file, then the writes, the close and the response.

\* A file just opened with mode 'w': it exists and is empty.
Truncated == [title |-> "", written |-> clock, total |-> 0, active |-> 0,
              summary |-> << >>, parts |-> << >>]

\* auto_export_enhanced_csv from its first line to open(filename, 'w'):
\* the name is taken from the clock, the queries read the rows committed
\* so far (local[c].reg keeps how many), the file is truncated.
OpenExport(c) ==
    /\ phase[c] = "export"
    /\ local' = [local EXCEPT ![c].reg = Len(entries)]
    /\ files' = [files EXCEPT !.timestamped = (clock :> Truncated) @@ @]
    /\ phase' = [phase EXCEPT ![c] = "writing"]
    /\ last' = Idle
    /\ UNCHANGED <<gui, main, clock, entries, sequence, stats, clients, running,
                   authenticated, dept_info, writer>>

\* The writes into the open file up to the failing query, the close of
\* the file, and the rest of the submit_data branch.
CloseExport(c) ==
    LET csv == auto_export_enhanced_csv(SubSeq(entries, 1, local[c].reg), files)
    IN  /\ phase[c] = "writing"
        /\ files' = csv.files
        /\ phase' = [phase EXCEPT ![c] = "open"]
        /\ last' = Obs("request", c, local[c].request,
                       [status    |-> "success",
                        message   |-> "Data saved successfully! CSV export completed for data analysis.",
                        entry_id  |-> local[c].entry_id,
                        dept_name |-> dept_info[c].dept_name],
                       1,
                       csv.log
                       \o << LogLine("CSV auto-export failed") >>
                       \o << LogSubmit(strip(Text(local[c].request, "entry_type")),
                                       dept_info[c].dept_name) >>)
        /\ UNCHANGED <<gui, main, clock, entries, sequence, stats, clients, running,
                       authenticated, dept_info, local, writer>>

NextWrite ==
    \/ start_server
    \/ \E c \in Pair : accept(c)
    \/ \E c \in Pair : ReadConnections(c)
    \/ \E c \in Pair : WriteConnections(c)
    \/ \E c \in Pair : Handle(c, LoginCS)
    \/ \E c \in Pair : RecvSubmit(c, SubmitMsg(Category, Short))
    \/ \E c \in Pair : InsertRow(c)
    \/ \E c \in Pair : Commit(c)
    \/ \E c \in Pair : ReadDataEntries(c)
    \/ \E c \in Pair : WriteDataEntries(c)
    \/ \E c \in Pair : OpenExport(c)
    \/ \E c \in Pair : CloseExport(c)

SpecWrite == Init /\ [][NextWrite]_vars

\* ------------------------------------------------- the credential runs
\* Clients log in with the credentials the setup script prints and the
\* ones the README of the deployment package lists.

\* The texts before and after the '@' of the seeded emails and of the
\* listed passwords.
LocalParts == { "cs", "math", "physics", "chemistry", "chem", "bio", "english",
                "eng", "business" }
Domains    == { "college.edu" }

\* email.split('@'): the text before the first '@' and the text after it.
split(email) ==
    CHOOSE p \in LocalParts \X Domains : p[1] \o "@" \o p[2] = email

\* display_sample_credentials(): a line for every row of departments with
\* its dept_name, its email and the password made from the email.
display_sample_credentials ==
    [i \in DOMAIN departments |->
        << SampleDepartments[i][1], SampleDepartments[i][2],
           split(SampleDepartments[i][2])[1] \o "_password123" >>]

\* The table under SAMPLE LOGIN CREDENTIALS in README.txt.
ReadmeCredentials ==
    << <<"Computer Science", "cs@college.edu",        "cs_password123">>,
       <<"Mathematics",      "math@college.edu",      "math_password123">>,
       <<"Physics",          "physics@college.edu",   "physics_password123">>,
       <<"Chemistry",        "chemistry@college.edu", "chemistry_password123">>,
       <<"Biology",          "bio@college.edu",       "bio_password123">>,
       <<"English",          "english@college.edu",   "english_password123">> >>

\* Every line shown to a user: department, email, password.
ShownCredentials ==
    { display_sample_credentials[i] : i \in DOMAIN display_sample_credentials }
    \cup { ReadmeCredentials[i] : i \in DOMAIN ReadmeCredentials }

\* The login a user sends who types in a shown line.
LoginAs(line) == LoginMsg(Lit(line[2]), Lit(line[3]))

SampleRequests ==
    { LoginAs(line) : line \in ShownCredentials } \cup { ActionMsg("disconnect") }

\* The credential runs have two clients, the first two connections.
NextSample ==
    \/ start_server
    \/ \E c \in Pair : accept(c)
    \/ \E c \in Pair : handle_client(c)
    \/ \E c \in Pair, m \in SampleRequests : Handle(c, m)

SpecSample == Init /\ [][NextSample]_vars

\* ------------------------------------------------------------ client runs
\* One client program (3_client_gui.py) on connection 1 of the server.  The
\* server stays idle between requests and keeps the connection open; all
\* requests fall within one second of the clock.
ClientBuf  == 4096      \* self.socket.recv(4096)
StampLen   == 19        \* a created_at text, 'YYYY-MM-DD HH:MM:SS'
ClientRows == 4         \* entries inserted in one run of the client runs
ClientAsks == 12        \* requests the client sends in one run

\* A category typed into the (editable) category box.
LongType == Str("T", 900)

Digits(n) == IF n < 10 THEN 1 ELSE IF n < 100 THEN 2 ELSE 3

\* len(json.dumps(rows)) for the rows of get_recent_entries
RECURSIVE RowsLen(_)
RowsLen(rows) ==
    IF rows = << >> THEN 0
    ELSE LET r == Head(rows)
         IN  2 + (Len("dept_name") + 6 + Len(r.dept_name))
               + 2 + (Len("entry_type") + 6 + Length(r.entry_type))
               + 2 + (Len("content_preview") + 6 + Length(r.content_preview))
               + 2 + (Len("created_at") + 6 + StampLen)
               + (IF Len(rows) > 1 THEN 2 ELSE 0)
               + RowsLen(Tail(rows))

\* len(json.dumps(v)) for the value of field k of a response
ValueLen(k, v) ==
    CASE k \in {"status", "message", "filename", "dept_name"} -> Len(v) + 2
      [] k = "entry_id"  -> Digits(v)
      [] k = "data"      -> 2 + RowsLen(v)
      [] k = "dept_info" -> 2 + (Len("success") + 4 + Len("true"))
                              + 2 + (Len("dept_id") + 4 + Digits(v.dept_id))
                              + 2 + (Len("dept_name") + 6 + Len(v.dept_name))
      [] k = "stats"     -> 2 + (Len("connections") + 4 + Digits(v.connections))
                              + 2 + (Len("data_entries") + 4 + Digits(v.data_entries))
                              + 2 + (Len("exports") + 4 + Digits(v.exports))

RECURSIVE FieldsLen(_, _)
FieldsLen(resp, keys) ==
    IF keys = {} THEN 0
    ELSE LET k == CHOOSE x \in keys : TRUE
         IN  Len(k) + 4 + ValueLen(k, resp[k]) + FieldsLen(resp, keys \ {k})

\* len(json.dumps(response).encode('utf-8')): what client_socket.send puts
\* on the connection
ResponseLen(resp) ==
    2 + FieldsLen(resp, DOMAIN resp) + 2 * (Cardinality(DOMAIN resp) - 1)

\* The bytes in the client's socket: what earlier reads left there, followed
\* by the response the server has just sent.  A response is kept as its
\* number (the request it answers), its size and how much of it was read.
Answered(c) ==
    /\ last.op = "request"
    /\ last.conn = c
    /\ last.sent = 1

Socket(c) ==
    IF gui[c].pc = "sent" /\ Answered(c)
    THEN Append(gui[c].unread,
                [of |-> gui[c].asked, from |-> 0, to |-> ResponseLen(last.resp),
                 size |-> ResponseLen(last.resp), status |-> last.resp.status,
                 path |-> gui[c].path])
    ELSE gui[c].unread

\* socket.recv(n) on bytes q: at most n bytes from the front, the rest stays.
RECURSIVE recv(_, _)
recv(q, n) ==
    IF q = << >> \/ n = 0 THEN [chunk |-> << >>, rest |-> q]
    ELSE LET h == Head(q)
         IN  IF h.size - h.from <= n
             THEN LET t == recv(Tail(q), n - (h.size - h.from))
                  IN  [chunk |-> << h >> \o t.chunk, rest |-> t.rest]
             ELSE [chunk |-> << [h EXCEPT !.to = h.from + n] >>,
                   rest  |-> << [h EXCEPT !.from = h.from + n] >> \o Tail(q)]

\* response_data += chunk
Joined_Bytes(data, chunk) ==
    IF data # << >> /\ chunk # << >> /\ data[Len(data)].of = chunk[1].of
    THEN SubSeq(data, 1, Len(data) - 1)
         \o << [data[Len(data)] EXCEPT !.to = chunk[1].to] >>
         \o Tail(chunk)
    ELSE data \o chunk

\* json.loads(data.decode()) returns a value: the bytes are one whole
\* response and nothing else.  On part of a response, or on a response
\* followed by more bytes, it raises JSONDecodeError.
json_loads(data) ==
    /\ Len(data) = 1
    /\ data[1].from = 0
    /\ data[1].to = data[1].size

Failure == [of |-> 0, status |-> "exception"]

\* self.socket.send(json.dumps(request).encode())
send(g, path, m) ==
    [g EXCEPT !.pc = "sent", !.path = path, !.request = m, !.asked = @ + 1,
              !.response_data = << >>]

\* A request path of the client, up to its first recv.
Ask(c, path, m) ==
    /\ phase[c] = "open"
    /\ gui[c].pc = "idle"
    /\ gui[c].asked < ClientAsks
    /\ gui' = [gui EXCEPT ![c] = send(@, path, m)]
    /\ last' = Obs("send", c, m, NoResp, 0, << >>)
    /\ UNCHANGED <<clock, entries, sequence, files, stats, clients, running,
                   phase, authenticated, dept_info, local, writer, main>>

\* login(): the Login button is enabled again by the finally block.
login(c, m) ==
    /\ Truthy(strip(Text(m, "email")))
    /\ Truthy(strip(Text(m, "password")))
    /\ Ask(c, "login", m)

\* submit_data(): content of ten characters or more.
submit_data(c, m) ==
    /\ gui[c].authenticated
    /\ NewRows < ClientRows
    /\ Ask(c, "submit_data", m)

\* export_csv(), up to its recv
export_csv(c) ==
    /\ gui[c].authenticated
    /\ Ask(c, "export_csv", ActionMsg("export_csv"))

\* refresh_activity() called by the 30 second timer, up to its recv
refresh_activity(c) ==
    /\ gui[c].authenticated
    /\ Ask(c, "get_recent", ActionMsg("get_recent"))

\* The server's handler reads the request and answers it.
Serve(c) ==
    /\ gui[c].pc = "sent"
    /\ last.op = "send"
    /\ last.conn = c
    /\ Handle(c, gui[c].request)

\* The handler's recv times out while the client sends nothing.
Expire(c) ==
    /\ gui[c].pc # "sent"
    /\ Timeout(c)

\* One pass of the receive loop of login and submit_data: recv, append,
\* json.loads; on a value, the rest of the path.  A success ends in
\* refresh_activity (login through start_auto_refresh), which sends
\* get_recent; a login 'success' without dept_info raises at .get.  The
\* socket has no timeout: recv waits until there are bytes or the peer has
\* closed, and on b'' the loop breaks with res_data unbound, which the
\* 'except Exception' of the path reports.
receive_loop(c) ==
    LET got  == recv(Socket(c), ClientBuf)
        data == Joined_Bytes(gui[c].response_data, got.chunk)
        g    == [gui[c] EXCEPT !.unread = got.rest, !.response_data = data]
        res  == [of |-> data[1].of, status |-> data[1].status]
        ok   == res.status = "success"
        h    == [g EXCEPT !.res = [for |-> g.asked] @@ res,
                          !.authenticated = @ \/ (ok /\ g.path = "login")]
        next == IF got.chunk = << >>
                THEN [g EXCEPT !.pc = "idle", !.res = [for |-> g.asked] @@ Failure]
                ELSE IF ~json_loads(data) THEN [g EXCEPT !.pc = "reading"]
                ELSE IF ok /\ (g.path = "login" => data[1].path = "login")
                     /\ g.asked < ClientAsks
                THEN send(h, "get_recent", ActionMsg("get_recent"))
                ELSE [h EXCEPT !.pc = "idle"]
    IN  /\ gui[c].pc \in {"sent", "reading"}
        /\ gui[c].path \in {"login", "submit_data"}
        /\ gui[c].pc = "sent" => Answered(c)
        /\ Socket(c) # << >> \/ phase[c] = "closed"
        /\ gui' = [gui EXCEPT ![c] = next]
        /\ last' = IF next.pc = "sent"
                   THEN Obs("send", c, next.request, NoResp, 0, << >>)
                   ELSE Obs("recv", c, gui[c].request, NoResp, 0, << >>)
        /\ UNCHANGED <<clock, entries, sequence, files, stats, clients, running,
                       phase, authenticated, dept_info, local, writer, main>>

\* The rest of export_csv and of refresh_activity: one recv(4096), one
\* json.loads; 'except Exception' logs whatever it raises.
receive_once(c) ==
    LET got == recv(Socket(c), ClientBuf)
        res == IF json_loads(got.chunk)
               THEN [of |-> got.chunk[1].of, status |-> got.chunk[1].status]
               ELSE Failure
    IN  /\ gui[c].pc = "sent"
        /\ gui[c].path \in {"export_csv", "get_recent"}
        /\ Answered(c)
        /\ gui' = [gui EXCEPT ![c] =
                      [@ EXCEPT !.pc = "idle", !.unread = got.rest,
                                !.res = [for |-> gui[c].asked] @@ res]]
        /\ last' = Obs("recv", c, gui[c].request, NoResp, 0, << >>)
        /\ UNCHANGED <<clock, entries, sequence, files, stats, clients, running,
                       phase, authenticated, dept_info, local, writer, main>>

ClientLogins == { LoginCS, LoginMsg(Lit("cs@college.edu"), Lit("cs_password")) }
ClientSubmits == { SubmitMsg(LongType, Short) }

NextClient ==
    \/ start_server
    \/ accept(1)
    \/ handle_client(1)
    \/ \E m \in ClientLogins : login(1, m)
    \/ \E m \in ClientSubmits : submit_data(1, m)
    \/ export_csv(1)
    \/ refresh_activity(1)
    \/ Serve(1)
    \/ receive_loop(1)
    \/ receive_once(1)
    \/ Expire(1)

SpecClient == Init /\ [][NextClient]_vars

\* The client's thread runs, and its recv returns once there are bytes to
\* return or the peer has closed.  Nothing is assumed of the peer: it may
\* take any time to answer and may keep the connection open for ever.
FairClient ==
    /\ SpecClient
    /\ WF_vars(receive_loop(1))
    /\ WF_vars(receive_once(1))

\* -------------------------------------------------------------- stop runs
\* The server is stopped the one way the program stops it: Ctrl-C in the
\* terminal, which __main__ answers with stop_server.  Two clients are
\* connected or connecting; their handlers are threads of their own and go
\* on running while the main thread shuts down.

\* KeyboardInterrupt reaches the main thread inside the accept loop.  It is
\* no Exception, so neither except clause of start_server catches it: the
\* finally clause closes the listening socket and logs, and start_server is
\* left with self.running still True.
KeyboardInterrupt ==
    /\ main.pc = "loop"
    /\ running
    /\ main' = [main EXCEPT !.pc = "interrupted"]
    /\ last' = Obs("interrupt", 0, << >>, NoResp, 0, << LogLine("Server socket closed") >>)
    /\ UNCHANGED <<clock, entries, sequence, files, stats, clients, running,
                   phase, authenticated, dept_info, local, writer, gui>>

\* stop_server, up to its loop: self.running = False; iter(self.clients)
stop_server ==
    /\ main.pc = "interrupted"
    /\ running' = FALSE
    /\ main' = [main EXCEPT !.pc = "closing", !.index = 0,
                            !.listed = { clients[i] : i \in DOMAIN clients }]
    /\ last' = Obs("stop_server", 0, << >>, NoResp, 0, << >>)
    /\ UNCHANGED <<clock, entries, sequence, files, stats, clients,
                   phase, authenticated, dept_info, local, writer, gui>>

\* One pass of 'for client in self.clients: client.close()'.  The list
\* iterator holds an index into the list itself: it hands out the element at
\* that index of the list as it is now, and ends when the index has reached
\* the list's present length.
close_client ==
    /\ main.pc = "closing"
    /\ main' = IF main.index < Len(clients)
               THEN [main EXCEPT !.index = @ + 1,
                                 !.closed = @ \cup { clients[main.index + 1] }]
               ELSE [main EXCEPT !.pc = "stopped"]
    /\ last' = Obs("close", IF main.index < Len(clients) THEN clients[main.index + 1] ELSE 0,
                   << >>, NoResp, 0, << >>)
    /\ UNCHANGED <<clock, entries, sequence, files, stats, clients, running,
                   phase, authenticated, dept_info, local, writer, gui>>

\* __main__: server.start_server(), called once.
run_server ==
    /\ main.pc = "loop"
    /\ start_server

\* The accept loop's pass, while the main thread is in the loop.
accept_connection(c) ==
    /\ main.pc = "loop"
    /\ accept(c)

\* A request read from a socket stop_server has not closed.
HandleOpen(c, m) ==
    /\ c \notin main.closed
    /\ Handle(c, m)

\* recv on a socket stop_server has closed: the OSError is neither
\* socket.timeout nor ConnectionResetError and ends the handler.
BadDescriptor(c) ==
    /\ c \in main.closed
    /\ phase[c] = "open"
    /\ Finish(c, "closed", << >>, Raise(c), 0)

StopRequests == { LoginCS, ActionMsg("get_stats") }

NextStop ==
    \/ run_server
    \/ \E c \in Pair : accept_connection(c)
    \/ \E c \in Pair : handle_client(c)
    \/ \E c \in Pair, m \in StopRequests : HandleOpen(c, m)
    \/ \E c \in Pair : PeerClosed(c)
    \/ \E c \in Pair : BadDescriptor(c)
    \/ KeyboardInterrupt
    \/ stop_server
    \/ close_client

SpecStop == Init /\ [][NextStop]_vars

\* ---------------------------------------------------------------- claims
\* The step is a pass of connection c's handler on request m, read whole
\* (every action writes what it did to last).
Handled(c, m) ==
    /\ last'.op = "request"
    /\ last'.conn = c
    /\ last'.req = m
    /\ phase[c] = "open"

\* ------------------------------------------------------------------ C1
\* The department whose row carries exactly this email and the hash of
\* exactly this password, as a set of row numbers.
Seeded(email, password) ==
    { i \in DOMAIN departments :
        /\ departments[i].email = email
        /\ departments[i].password_hash = sha256(password) }

LoggedInAs(c, i) ==
    /\ authenticated'[c]
    /\ dept_info'[c] = [dept_id |-> departments[i].dept_id,
                        dept_name |-> departments[i].dept_name]
    /\ last'.resp.status = "success"
    /\ last'.resp.dept_info.dept_name = departments[i].dept_name

LoginRefused(c) ==
    /\ last'.resp.status = "error"
    /\ ~authenticated'[c]
    /\ dept_info'[c] = None

\* C1 as stated: on an Unauthenticated session a login whose email and
\* password, exactly as sent, are those of a seeded department logs the
\* session in as that department, and every other login is answered with an
\* error and leaves the session Unauthenticated.
C1_AsStated ==
    [][\A c \in Conns, m \in LoginMsgs :
        (Handled(c, m) /\ ~authenticated[c]) =>
            LET found == Seeded(Get(m, "email").str, Get(m, "password").str)
            IN  IF found # {}
                THEN \A i \in found : LoggedInAs(c, i)
                ELSE LoginRefused(c)]_vars

\* C1, amended: the same, with the email and the password compared after
\* the server has trimmed the blanks around them.
C1_LoginAfterTrim ==
    [][\A c \in Conns, m \in LoginMsgs :
        (Handled(c, m) /\ ~authenticated[c]) =>
            LET found == Seeded(strip(Get(m, "email").str), strip(Get(m, "password").str))
            IN  IF found # {}
                THEN \A i \in found : LoggedInAs(c, i)
                ELSE LoginRefused(c)]_vars

\* A login padded with blanks has logged a session in as Computer Science.
C1_Witness ==
    /\ last.op = "request"
    /\ last.req = LoginMsg(Pad(Lit("cs@college.edu"), 1, 1), Lit("cs_password123"))
    /\ last.resp.status = "success"
    /\ authenticated[last.conn]
    /\ dept_info[last.conn].dept_name = "Computer Science"

\* ------------------------------------------------------------------ C2
\* C2: an Unauthenticated session that sends submit_data, get_recent,
\* export_csv or get_stats gets one error response; the entries, the export
\* files and the session's state stay as they were.
C2_UnauthenticatedRejected ==
    [][\A c \in Conns, m \in Requests :
        (Handled(c, m) /\ ~authenticated[c] /\ \E a \in AuthOnly : ActionIs(m, a)) =>
            /\ last'.resp.status = "error"
            /\ last'.sent = 1
            /\ entries' = entries /\ sequence' = sequence
            /\ files' = files
            /\ phase'[c] = "open"
            /\ ~authenticated'[c] /\ dept_info'[c] = dept_info[c]]_vars

\* An Unauthenticated session has had export_csv refused while the store
\* held an entry.
C2_Witness ==
    /\ last.op = "request"
    /\ ActionIs(last.req, "export_csv")
    /\ ~authenticated[last.conn] /\ phase[last.conn] = "open"
    /\ last.resp = InvalidAction
    /\ Len(entries) > 0

\* ------------------------------------------------------------------ C3
\* C3: a login on an Authenticated session is answered with the 'Invalid
\* action or authentication required' error whatever it carries; no
\* authentication is run (none is logged) and the session keeps its flag and
\* its department.
C3_LoginWhileAuthenticated ==
    [][\A c \in Conns, m \in LoginMsgs :
        (Handled(c, m) /\ authenticated[c]) =>
            /\ last'.resp = InvalidAction
            /\ last'.log = << >>
            /\ phase'[c] = "open"
            /\ authenticated'[c] /\ dept_info'[c] = dept_info[c]]_vars

\* A session logged in as Computer Science has sent Mathematics' correct
\* login and was refused.
C3_Witness ==
    /\ last.op = "request"
    /\ last.req = LoginMath
    /\ last.resp = InvalidAction
    /\ authenticated[last.conn]
    /\ dept_info[last.conn].dept_name = "Computer Science"

\* ------------------------------------------------------------------ C4
\* C4: a session that is Authenticated stays Authenticated, bound to the
\* same department, until it is closed; and get_recent and get_stats leave
\* the stored entries as they were.
C4_SessionOnlyMovesForward ==
    [][/\ \A c \in Conns :
            authenticated[c] =>
                \/ phase'[c] = "closed"
                \/ authenticated'[c] /\ dept_info'[c] = dept_info[c]
       /\ \A c \in Conns, m \in Requests :
            (Handled(c, m) /\ (ActionIs(m, "get_recent") \/ ActionIs(m, "get_stats"))) =>
                entries' = entries /\ sequence' = sequence]_vars

\* An Authenticated session has had a submit refused and is still bound to
\* its department.
C4_Witness ==
    /\ last.op = "request"
    /\ ActionIs(last.req, "submit_data")
    /\ last.resp.status = "error"
    /\ authenticated[last.conn]
    /\ dept_info[last.conn].dept_name = "Mathematics"
    /\ Len(entries) > 0

\* ------------------------------------------------------------------ C5
\* The step is connection c's handler reading request m, in one read or in
\* pieces.
Received(c, m) ==
    /\ last'.op \in { "request", "pieces" }
    /\ last'.conn = c
    /\ last'.req = m
    /\ phase[c] = "open"

ValidationErrors ==
    { "Both category and content are required", "Entry type is required",
      "Data content is required", "Content too long (max 10,000 characters)" }

\* Empty or blank category, empty or blank content, or content over the limit.
Invalid(m) ==
    \/ ~Truthy(strip(Text(m, "entry_type")))
    \/ ~Truthy(strip(Text(m, "data_content")))
    \/ Length(Text(m, "data_content")) > MaxContent

\* C5: a submit_data with empty or blank content, empty or blank category,
\* or content of more than 10,000 characters is rejected with a validation
\* error and creates no entry, on an Authenticated session and on an
\* Unauthenticated one.
C5_InvalidSubmitRejected ==
    [][\A c \in Conns, m \in SubmitMsgs :
        (Received(c, m) /\ Invalid(m)) =>
            /\ entries' = entries
            /\ last'.resp.status = "error"
            /\ last'.resp.message \in ValidationErrors
            /\ last'.sent = 1]_vars

\* ------------------------------------------------------------------ C6
\* C6: on an Authenticated session every submit_data whose trimmed category
\* is not empty and whose trimmed content is not empty and at most 10,000
\* characters long gets a success response, and exactly one entry, the
\* session's department's, is added.
C6_ValidSubmitAccepted ==
    [][\A c \in Conns, m \in SubmitMsgs :
        (/\ Received(c, m)
         /\ authenticated[c]
         /\ Truthy(strip(Text(m, "entry_type")))
         /\ Truthy(strip(Text(m, "data_content")))
         /\ Length(strip(Text(m, "data_content"))) <= MaxContent) =>
            /\ last'.resp.status = "success"
            /\ Len(entries') = Len(entries) + 1
            /\ SubSeq(entries', 1, Len(entries)) = entries
            /\ entries'[Len(entries')].dept_id = dept_info[c].dept_id
            /\ entries'[Len(entries')].data_content = strip(Text(m, "data_content"))]_vars

\* ------------------------------------------------------------------ C7
\* The rows get_recent's query selects, in its order.
TopRows(rows) == Limit(OrderByCreatedDesc(rows, Joined(rows)), RecentLimit)

\* C7: every successful submit_data makes get_recent's result one entry
\* longer, and the new entry is its first element and carries the name of
\* the department that inserted it.
C7_NewEntryFirst ==
    [][\A c \in Conns, m \in SubmitMsgs :
        (Received(c, m) /\ last'.resp.status = "success") =>
            /\ Len(RecentOf(entries', RecentLimit)) = Len(RecentOf(entries, RecentLimit)) + 1
            /\ TopRows(entries')[1].entry_id = last'.resp.entry_id
            /\ RecentOf(entries', RecentLimit)[1].dept_name = dept_info[c].dept_name]_vars

\* ------------------------------------------------------------------ C8
NewestFirst(r) ==
    \A i, j \in 1..Len(r) : i < j => r[i].created_at >= r[j].created_at

\* C8: get_recent_entries(limit) returns at most limit entries, none of them
\* before an entry created later than it; the get_recent response is that
\* result for the limit of 10.
C8_RecentBoundedNewestFirst ==
    /\ \A limit \in 0..(RecentLimit + 1) :
          /\ Len(get_recent_entries(limit)) <= limit
          /\ NewestFirst(get_recent_entries(limit))
    /\ (last.op = "request" /\ ActionIs(last.req, "get_recent") /\ last.resp.status = "success") =>
          /\ last.resp.data = get_recent_entries(RecentLimit)
          /\ Len(last.resp.data) <= RecentLimit
          /\ NewestFirst(last.resp.data)

\* get_recent has answered on a store of more than 10 entries made at
\* different seconds.
C8_Witness ==
    /\ last.op = "request"
    /\ ActionIs(last.req, "get_recent")
    /\ last.resp.status = "success"
    /\ Len(entries) > RecentLimit
    /\ Len(last.resp.data) = RecentLimit
    /\ last.resp.data[1].created_at > last.resp.data[RecentLimit].created_at
    /\ entries[Len(entries)].created_at >= 0

\* ------------------------------------------------------------------ C9
\* Connection c's submission has been committed and not yet answered, or
\* was answered by the last step.
Submitted(c) ==
    \/ phase[c] \in { "count", "counted", "export" }
    \/ /\ last.op = "request" /\ last.conn = c
       /\ ActionIs(last.req, "submit_data")
       /\ local[c].entry_id # 0

\* C9: when sessions submit valid data at the same time, under every
\* interleaving of their handler threads each submission succeeds, the
\* entry_id values of different sessions differ, and each is the id of the
\* row that session inserted.
C9_ConcurrentSubmitsDistinct ==
    /\ \A i, j \in DOMAIN entries :
          i # j => entries[i].entry_id # entries[j].entry_id
    /\ \A c, d \in Conns :
          (c # d /\ local[c].entry_id # 0 /\ local[d].entry_id # 0) =>
              local[c].entry_id # local[d].entry_id
    /\ \A c \in Conns : Submitted(c) =>
          \E i \in DOMAIN entries :
              /\ entries[i].entry_id = local[c].entry_id
              /\ entries[i].dept_id = dept_info[c].dept_id
              /\ entries[i].data_content = strip(Text(local[c].request, "data_content"))
    /\ \A c \in Conns :
          (last.op = "request" /\ last.conn = c /\ ActionIs(last.req, "submit_data")) =>
              /\ last.resp.status = "success"
              /\ last.resp.entry_id = local[c].entry_id
    /\ writer # 0 => phase[writer] = "commit"

\* Two sessions of different departments have both committed a row and
\* neither has been answered yet.
C9_Witness ==
    \E c, d \in Conns :
        /\ c # d
        /\ phase[c] = "export" /\ phase[d] \in { "count", "counted", "export" }
        /\ dept_info[c].dept_id # dept_info[d].dept_id
        /\ local[c].entry_id # local[d].entry_id

\* ----------------------------------------------------------------- C10
\* No handler thread is inside a request or its start-up.
Quiescent == \A c \in Conns : phase[c] \in { "new", "accepted", "open", "closed" }

\* C10: once the handlers are quiescent, stats['connections'] is the number
\* of connections whose handler started and stats['data_entries'] the
\* number of inserts committed since the server started.
C10_CountersExact ==
    Quiescent =>
        /\ stats.connections =
              Cardinality({ c \in Conns : phase[c] \notin { "new", "accepted" } })
        /\ stats.data_entries = NewRows

\* ----------------------------------------------------------------- C11
\* What the handler read: received data that is not text, not JSON, not an
\* object, or an object with a field that is not a string.
Faulty(req) ==
    \/ req \in NotJSON \cup NotObject \cup { NotText }
    \/ /\ "action" \in DOMAIN req
       /\ \E k \in DOMAIN req : ~IsStr(req[k])

\* C11: whatever goes wrong while one received request is handled, the
\* session stays open and, where the request was at fault, an error
\* response is sent; a session ends only on a disconnect action, an idle
\* timeout, the peer's close or a socket failure.
C11_RequestErrorsRecovered ==
    [][\A c \in Conns :
        (/\ phase[c] = "open"
         /\ last'.conn = c
         /\ last'.op \in { "request", "malformed", "undecodable", "pieces" }
         /\ ~ActionIs(last'.req, "disconnect")) =>
            /\ phase'[c] = "open"
            /\ Faulty(last'.req) => (last'.sent >= 1 /\ last'.resp.status = "error")]_vars

\* ----------------------------------------------------------------- C12
\* C12: a message that does not parse as JSON is answered at once with one
\* error response; the connection stays open, the session keeps its
\* authentication state and department, nothing is stored, and every later
\* request is handled as it would have been before.
C12_MalformedAnswered ==
    [][\A c \in Conns :
        (phase[c] = "open" /\ last'.conn = c /\ last'.op = "malformed") =>
            /\ last'.resp = InvalidJSON
            /\ last'.sent = 1
            /\ phase'[c] = "open"
            /\ authenticated'[c] = authenticated[c]
            /\ dept_info'[c] = dept_info[c]
            /\ entries' = entries
            /\ \A m \in DecodeRequests : Dispatch(c, m)' = Dispatch(c, m)]_vars

\* A session logged in as a department has had text that is not JSON
\* answered and is still open and logged in.
C12_Witness ==
    /\ last.op = "malformed"
    /\ last.req \in NotJSON
    /\ last.resp = InvalidJSON
    /\ phase[last.conn] = "open"
    /\ authenticated[last.conn]
    /\ dept_info[last.conn].dept_id = 1

\* ----------------------------------------------------------------- C13
\* C13: a request is dispatched once, as one message, however many reads
\* it takes: the response and the store are those of its dispatch, and no
\* error is sent for the part read first.
C13_LargeRequestDispatchedOnce ==
    [][\A c \in Conns, m \in DecodeRequests :
        Received(c, m) =>
            /\ last'.sent <= 1
            /\ last'.resp = Dispatch(c, m).resp
            /\ entries' = Dispatch(c, m).entries]_vars

\* ----------------------------------------------------------------- C14
\* The step is connection c's handler answering a submit_data.
Submit(c) ==
    /\ phase[c] = "open"
    /\ last'.op = "request"
    /\ last'.conn = c
    /\ ActionIs(last'.req, "submit_data")

Logged(text) == \E i \in DOMAIN last.log : last.log[i] = LogLine(text)

\* C14: when the entry of a submit_data has been committed and the
\* automatic export after it fails, the response is still a success with
\* the entry's entry_id, the entry is in the store, and the failure is in
\* the log.
C14_ExportFailureNotFatal ==
    [][\A c \in Conns :
        (/\ Submit(c)
         /\ Len(entries') = Len(entries) + 1
         /\ auto_export_enhanced_csv(entries', files).filename = NoFile) =>
            /\ last'.resp.status = "success"
            /\ last'.resp.entry_id = entries'[Len(entries')].entry_id
            /\ SubSeq(entries', 1, Len(entries)) = entries
            /\ Logged("CSV auto-export failed")']_vars

\* A submit_data whose automatic export failed has been answered with
\* success and the id of the entry it stored.
C14_Witness ==
    /\ last.op = "request"
    /\ ActionIs(last.req, "submit_data")
    /\ Logged("CSV auto-export failed")
    /\ last.resp.status = "success"
    /\ Len(entries) > 0
    /\ entries[Len(entries)].entry_id = last.resp.entry_id

\* ----------------------------------------------------------------- C15
\* C15: every export writes a file under a name no earlier export wrote
\* to: the automatic export after a submit a name not yet among the
\* timestamp-named files, the export_csv action a name not yet used.
C15_ExportNamesFresh ==
    [][\A c \in Conns :
        /\ (Submit(c) /\ last'.resp.status = "success") =>
               clock \notin DOMAIN files.timestamped
        /\ (/\ phase[c] = "open" /\ last'.op = "request" /\ last'.conn = c
            /\ ActionIs(last'.req, "export_csv")
            /\ last'.resp.status = "success") =>
               files.report = NoFile]_vars

\* ----------------------------------------------------------------- C16
\* C16: after every successful submit_data the file
\* latest_college_data_export.csv holds the export that submit made, a
\* snapshot of the store with the new entry in it.
C16_LatestFollowsSubmit ==
    [][\A c \in Conns :
        (Submit(c) /\ last'.resp.status = "success") =>
            /\ files'.latest # NoFile
            /\ files'.latest.written = clock
            /\ files'.latest.total = Len(entries')]_vars

\* ----------------------------------------------------------------- C17
RECURSIVE Total(_)
Total(s) == IF s = << >> THEN 0 ELSE s[1] + Total(Tail(s))

C18_AutoExportComplete ==
    [][\A c \in Conns :
        (Submit(c) /\ last'.resp.status = "success") =>
            /\ auto_export_enhanced_csv(entries', files).filename # NoFile
            /\ Logged("CSV auto-export successful")'
            /\ \A part \in { "DATA SUMMARY BY CATEGORY",
                               "RECENT ACTIVITY (Last 10 Entries)",
                               "DETAILED DATA EXPORT" } :
                  \E i \in DOMAIN files'.timestamped[clock].parts :
                      files'.timestamped[clock].parts[i] = part]_vars

\* ----------------------------------------------------------------- C19
\* C19: a step of one session, or of none, leaves every other session's
\* authenticated flag and department as they were; a session becomes
\* Authenticated, or bound to a department, only by a successful login
\* response on its own connection naming that department; an
\* Authenticated session has a department.
C19_SessionsSeparate ==
    [][\A c \in Conns :
        /\ last'.conn # c =>
              (authenticated'[c] = authenticated[c] /\ dept_info'[c] = dept_info[c])
        /\ (authenticated'[c] /\ (~authenticated[c] \/ dept_info'[c] # dept_info[c])) =>
              /\ last'.op = "request"
              /\ last'.conn = c
              /\ ActionIs(last'.req, "login")
              /\ last'.resp.status = "success"
              /\ last'.resp.dept_info = dept_info'[c]
        /\ authenticated'[c] => dept_info'[c] # None
        /\ ~authenticated'[c] => dept_info'[c] = None]_vars

\* One session is logged in as a department while another, open, has just
\* had a login refused.
C19_Witness ==
    \E c, d \in Conns :
        /\ c # d
        /\ authenticated[c] /\ dept_info[c].dept_id = 2
        /\ phase[d] = "open" /\ ~authenticated[d]
        /\ last.conn = d
        /\ last.op = "request"
        /\ ActionIs(last.req, "login")
        /\ last.resp.status = "error"

\* ----------------------------------------------------------------- C20
\* C20: the entries change only by a submit_data handled on an
\* Authenticated session, which adds one entry with that session's dept_id
\* after the entries there were and leaves those as they were.
C20_EntriesOnlyGrow ==
    [][entries' # entries =>
        \E c \in Conns :
            /\ Submit(c)
            /\ authenticated[c]
            /\ Len(entries') = Len(entries) + 1
            /\ SubSeq(entries', 1, Len(entries)) = entries
            /\ entries'[Len(entries')].dept_id = dept_info[c].dept_id
            /\ entries'[Len(entries')].entry_id \notin
                  { entries[i].entry_id : i \in DOMAIN entries }]_vars

\* A report has been exported from a store that holds an entry, and the
\* entry is still there.
C20_Witness ==
    /\ last.op = "request"
    /\ ActionIs(last.req, "export_csv")
    /\ last.resp.status = "success"
    /\ Len(entries) > 0
    /\ entries[1].dept_id = dept_info[last.conn].dept_id

\* ----------------------------------------------------------------- C21
\* C21: whether or not the log rows of a step can be written, the step has
\* the outcome of the operation: a connection open starts the session and
\* counts it; a login, submit, export or disconnect sends the response of
\* its dispatch and leaves the store, the files, the counters and the
\* session as its dispatch leaves them.
C21_LogFailureHarmless ==
    [][\A c \in Conns :
        /\ (phase[c] = "accepted" /\ last'.op = "handle_client" /\ last'.conn = c) =>
              /\ phase'[c] = "open"
              /\ stats'.connections = stats.connections + 1
        /\ \A m \in LogRequests : Received(c, m) =>
              LET out == Dispatch(c, m)
              IN  /\ last'.resp = out.resp
                  /\ last'.sent = IF out.resp = NoResp THEN 0 ELSE 1
                  /\ entries' = out.entries
                  /\ stats' = out.stats
                  /\ files' = out.files
                  /\ phase'[c] = IF out.end = "no" THEN "open" ELSE "closed"
                  /\ authenticated'[c] = (out.end = "no" /\ out.authenticated)
                  /\ dept_info'[c] = IF out.end = "no" THEN out.dept_info ELSE None]_vars

\* A submit has stored its entry and been answered with success while none
\* of its log rows could be written.
C21_Witness ==
    /\ last.op = "request"
    /\ ActionIs(last.req, "submit_data")
    /\ last.resp.status = "success"
    /\ last.log = << >>
    /\ Len(entries) = 1
    /\ authenticated[last.conn]

\* ----------------------------------------------------------------- C22
\* C22: a pass of the accept loop in which accept() raises leaves the
\* server running, and every connection pending after it is accepted and
\* handed to a handler thread.
C22_AcceptFailureSurvived ==
    /\ [][last'.op = "accept_error" => running /\ running']_vars
    /\ \A c \in Pair :
          (last.op = "accept_error" /\ phase[c] = "new") ~> (phase[c] = "accepted")

\* Connection 2 has its handler after an accept that failed once
\* connection 1 was being served.
C22_Witness ==
    /\ last.op = "accept_error"
    /\ phase[1] = "open"
    /\ phase[2] = "new"
    /\ running

\* ----------------------------------------------------------------- C23
\* C23: whatever call the first handler stays in (a read of its socket,
\* the INSERT, the commit, the export), every pending connection is
\* accepted and handed to its own handler, and the second handler
\* finishes the request it is on and returns to its socket.
C23_HandlersNeverBlockAccept ==
    /\ \A c \in Pair : (running /\ phase[c] = "new") ~> (phase[c] = "accepted")
    /\ (phase[2] \notin { "new", "open", "closed" }) ~> (phase[2] = "open")

\* The second connection is accepted while the first handler is inside
\* its transaction, holding the write lock.
C23_Witness ==
    /\ last.op = "accept"
    /\ last.conn = 2
    /\ phase[1] = "commit"
    /\ writer = 1

\* ----------------------------------------------------------------- C24
\* The phases in which a handler is inside the handling of a request.
Serving == { "insert", "commit", "count", "counted", "export" }

\* C24: a handler takes a request from its socket only while it waits in
\* recv with no request in hand; the request in hand stays the same
\* until its response is sent, the response is the one to that request,
\* and only then is the handler back at recv.
C24_OneRequestAtATime ==
    [][\A c \in Pair :
        /\ (phase'[c] = "insert" /\ phase[c] # "insert") => phase[c] = "open"
        /\ phase[c] \in Serving =>
              /\ local'[c].request = local[c].request
              /\ phase'[c] \in Serving \cup { "open" }
              /\ phase'[c] = "open" =>
                    /\ last'.op = "request"
                    /\ last'.conn = c
                    /\ last'.req = local[c].request
                    /\ last'.sent = 1
        /\ (last'.op = "request" /\ last'.conn = c /\ last' # last) =>
              /\ phase[c] \in { "open", "export" }
              /\ phase'[c] = "open"]_vars

\* A handler is between the INSERT and the commit of the one request it
\* has read, after it answered a login.
C24_Witness ==
    \E c \in Pair :
        /\ phase[c] = "commit"
        /\ ActionIs(local[c].request, "submit_data")
        /\ authenticated[c]
        /\ Len(entries) = 1

\* ----------------------------------------------------------------- C30
\* The step in which the INSERT or the commit of handler c raises.
Failed(c) == phase[c] \in { "insert", "commit" } /\ phase'[c] = "open"

\* C30: when the INSERT or the commit of a submit raises a database
\* error, no row is added, the AUTOINCREMENT sequence and
\* stats['data_entries'] keep their values, no file is written, the write
\* lock is free of this handler, one error response is sent and the session
\* stays open and authenticated; a row that is added is the whole entry of
\* the committing handler's request, with the id it was given at the INSERT
\* and the server's time as created_at.
C30_InsertAtomic ==
    [][/\ \A c \in Pair : Failed(c) =>
            /\ entries' = entries
            /\ sequence' = sequence
            /\ stats' = stats
            /\ files' = files
            /\ writer' # c
            /\ last'.resp.status = "error"
            /\ last'.conn = c
            /\ last'.sent = 1
            /\ authenticated'[c]
            /\ dept_info'[c] = dept_info[c]
       /\ entries' # entries =>
            \E c \in Pair :
                /\ phase[c] = "commit"
                /\ phase'[c] = "count"
                /\ entries' = Append(entries,
                                  Entry(local[c].entry_id, dept_info[c].dept_id,
                                        Category, Short, clock))
                /\ local[c].entry_id = sequence + 1]_vars

\* A commit has failed after its INSERT had been given an id: the store
\* is empty as before, the counter is 0 and the handler is back at recv,
\* logged in.
C30_Witness ==
    \E c \in Pair :
        /\ last.op = "db_error"
        /\ last.conn = c
        /\ local[c].entry_id # 0
        /\ phase[c] = "open"
        /\ authenticated[c]
        /\ entries = << >>
        /\ stats.data_entries = 0

\* ----------------------------------------------------------------- C25
\* The session is waiting for a request and is not logged in.
Unauthenticated(c) == phase[c] = "open" /\ ~authenticated[c]

\* The last step refused a login for its credentials.
LoginFailed ==
    /\ last.op = "request"
    /\ ActionIs(last.req, "login")
    /\ last.resp = Response("error", "Invalid credentials")

\* C25: a refused login leaves its session open and Unauthenticated, and
\* in every state, whatever logins were refused before on this or other
\* sessions, a login with a department's own email and password on an
\* Unauthenticated session is answered with success and logs the session
\* in as that department.
C25_FailedLoginsNeverLock ==
    /\ LoginFailed => Unauthenticated(last.conn)
    /\ \A c \in Conns : Unauthenticated(c) =>
          \A m \in { LoginCS, LoginMath } :
              LET out == Dispatch(c, m)
              IN  /\ out.resp.status = "success"
                  /\ out.end = "no"
                  /\ out.authenticated
                  /\ out.dept_info = out.resp.dept_info
                  /\ \E i \in Seeded(Text(m, "email"), Text(m, "password")) :
                        out.dept_info.dept_name = departments[i].dept_name

\* A login with a wrong password has just been refused on a session while
\* another session is open and not logged in.
C25_Witness ==
    /\ LoginFailed
    /\ Text(last.req, "password") = Lit("wrongpass")
    /\ Unauthenticated(last.conn)
    /\ \E d \in Conns : d # last.conn /\ Unauthenticated(d)

\* ----------------------------------------------------------------- C26
\* Emails no department has, and emails of a department.
UnknownEmails == { e \in Emails : MatchingDepartments_EmailOnly(strip(e), << >>) = {} }
KnownEmails   == { e \in Emails : MatchingDepartments_EmailOnly(strip(e), << >>) # {} }

\* The form of a log row: its fixed text and its fields, the email apart.
Form(row) == [line |-> row.line, fields |-> DOMAIN row]

\* C26: on an Unauthenticated session a login with an email no department
\* has and a login with a department's email and a wrong password get the
\* same response, leave the same session state, and log one row each of
\* the same form, which differ in the attempted email only.
C26_NoEmailOracle ==
    \A c \in Conns : Unauthenticated(c) =>
        \A u \in UnknownEmails, k \in KnownEmails, p \in Passwords, q \in { Lit("wrongpass") } :
            LET a == Dispatch(c, LoginMsg(u, p))
                b == Dispatch(c, LoginMsg(k, q))
            IN  /\ a.resp = b.resp
                /\ a.resp = Response("error", "Invalid credentials")
                /\ a.end = b.end
                /\ a.authenticated = b.authenticated
                /\ a.dept_info = b.dept_info
                /\ Len(a.log) = 1
                /\ Len(b.log) = 1
                /\ Form(a.log[1]) = Form(b.log[1])
                /\ a.log[1] = [b.log[1] EXCEPT !.email = strip(u)]

\* A login with an unknown email has just been refused and logged.
C26_Witness ==
    /\ LoginFailed
    /\ Text(last.req, "email") \in UnknownEmails
    /\ Len(last.log) = 1
    /\ last.log[1].line = "Failed login attempt"

\* ----------------------------------------------------------------- C27
\* C27: a disconnect message, on a session that is logged in or not, is
\* answered with nothing, closes the session and takes its socket off
\* self.clients without touching the store; and once a session is closed
\* no step handles anything of that connection any more.
C27_DisconnectEndsSession ==
    [][\A c \in Pair :
        /\ Received(c, ActionMsg("disconnect")) =>
              /\ phase'[c] = "closed"
              /\ ~authenticated'[c]
              /\ dept_info'[c] = None
              /\ last'.resp = NoResp
              /\ last'.sent = 0
              /\ \A i \in DOMAIN clients' : clients'[i] # c
              /\ entries' = entries
              /\ stats' = stats
        /\ phase[c] = "closed" =>
              /\ phase'[c] = "closed"
              /\ ~authenticated'[c]
              /\ last' # last => last'.conn # c]_vars

\* A session has been closed by its disconnect while the other session is
\* open and logged in.
C27_Witness ==
    /\ last.op = "request"
    /\ last.req = ActionMsg("disconnect")
    /\ phase[last.conn] = "closed"
    /\ \E d \in Pair : d # last.conn /\ phase[d] = "open" /\ authenticated[d]

\* ----------------------------------------------------------------- C29
\* The step is the call save_department_data(d, t, x).
Saving(d, t, x) == last'.op = "save" /\ last'.req = SaveArgs(d, t, x)

\* No department has this id.
NoDepartment(d) == DeptName(d) = ""

\* The fields pass the validation of save_department_data.
ValidFields(t, x) ==
    /\ Truthy(strip(t))
    /\ Truthy(strip(x))
    /\ Length(x) <= MaxContent

\* The call left the store, the counters and the export files alone.
NothingSaved ==
    /\ ~last'.resp.success
    /\ entries' = entries
    /\ sequence' = sequence
    /\ stats' = stats
    /\ files' = files
    /\ last'.log = << >>

\* The call inserted the row and returned its new id.
RowSaved(d, t, x) ==
    /\ last'.resp.success
    /\ last'.resp.entry_id = sequence + 1
    /\ \A i \in DOMAIN entries : entries[i].entry_id # last'.resp.entry_id
    /\ entries' = Append(entries, Entry(sequence + 1, d, strip(t), strip(x), clock))
    /\ stats'.data_entries = stats.data_entries + 1

\* C29 as stated: every insert for a dept_id that references no department
\* fails with the unknown-department error and inserts no row, increments
\* no counter and triggers no export; an insert for an existing dept_id
\* with valid fields inserts the row and returns the new identifier.
C29_AsStated ==
    [][\A d \in SaveDepts, t \in SaveTypes, x \in SaveContents : Saving(d, t, x) =>
        /\ NoDepartment(d) =>
              NothingSaved /\ last'.resp.message = "Invalid department ID"
        /\ (~NoDepartment(d) /\ ValidFields(t, x)) => RowSaved(d, t, x)]_vars

\* C29: every insert for a dept_id that references no department fails
\* and inserts no row, increments no counter and triggers no export; its
\* error is the unknown-department error when the dept_id is not 0 and
\* the fields are valid, 'Department ID is required' when the dept_id is
\* 0, and the error of the field validation otherwise; an insert for an
\* existing dept_id with valid fields inserts the row and returns the new
\* identifier.
C29_UnknownDepartmentRefused ==
    [][\A d \in SaveDepts, t \in SaveTypes, x \in SaveContents : Saving(d, t, x) =>
        /\ NoDepartment(d) =>
              /\ NothingSaved
              /\ last'.resp.message =
                    IF d = 0 THEN "Department ID is required"
                    ELSE IF ValidFields(t, x) THEN "Invalid department ID"
                    ELSE IF ~Truthy(strip(t)) THEN "Entry type is required"
                    ELSE IF ~Truthy(strip(x)) THEN "Data content is required"
                    ELSE "Content too long (max 10,000 characters)"
        /\ (~NoDepartment(d) /\ ValidFields(t, x)) => RowSaved(d, t, x)]_vars

\* An insert with valid fields for an id no department has was refused as
\* unknown, on a store that holds a row of an earlier insert.
C29_Witness ==
    /\ last.op = "save"
    /\ last.req = SaveArgs(Len(SampleDepartments) + 1, Category, Short)
    /\ last.resp.message = "Invalid department ID"
    /\ NewRows = 1
    /\ stats.data_entries = 1

\* ----------------------------------------------------------------- C28
\* The last step logged the timeout of connection c.
TimedOut(c) ==
    /\ last.op = "timeout"
    /\ last.conn = c
    /\ last.log = << LogConn("Client timed out after 60 seconds", c),
                     LogConn("Connection closed", c) >>

\* C28: a handler never waits in one read for more than the 60 seconds;
\* a read that has waited 60 seconds ends the session with the timeout
\* logged, and no session is ended by a timeout earlier; a message that
\* arrives before that is handled, the session is not ended by a timeout,
\* and if it stays open the next read starts its 60 seconds from 0.
C28_IdleTimeout ==
    /\ [][/\ local'[1].waited <= IdleTimeout
          /\ (last'.op = "timeout" /\ phase[1] = "open") =>
               /\ local[1].waited = IdleTimeout
               /\ phase'[1] = "closed"
               /\ TimedOut(1)'
          /\ \A m \in IdleRequests : Received(1, m) =>
               /\ local[1].waited < IdleTimeout
               /\ ~TimedOut(1)'
               /\ phase'[1] = (IF m = ActionMsg("disconnect") THEN "closed" ELSE "open")
               /\ phase'[1] = "open" => local'[1].waited = 0]_vars
    /\ (phase[1] = "open" /\ local[1].waited = IdleTimeout) ~> TimedOut(1)

\* The session was ended by the timeout when its read had waited 60
\* seconds.
C28_Witness ==
    /\ TimedOut(1)
    /\ phase[1] = "closed"
    /\ local[1].waited = IdleTimeout
    /\ stats.connections = 1

\* ----------------------------------------------------------------- C31
\* C31: on a fresh store the first successful submit_data returns
\* entry_id 1 and every later one an entry_id greater than every other
\* entry_id in the store, and the get_recent that follows a successful
\* submit returns that entry with the first 100 characters of its content
\* as the preview, the whole content when it has no more than 100.
C31_FirstIdAndRecentPreview ==
    (last.op = "request" /\ ActionIs(last.req, "submit_data")
                         /\ last.resp.status = "success") =>
        LET id      == last.resp.entry_id
            content == strip(Text(last.req, "data_content"))
            top     == TopRows(entries)
            recent  == Dispatch(last.conn, ActionMsg("get_recent")).resp.data
        IN  /\ Len(entries) = 1 => id = 1
            /\ \A i \in DOMAIN entries :
                  entries[i].entry_id < id \/ (i = Len(entries) /\ entries[i].entry_id = id)
            /\ Len(recent) = Len(top)
            /\ \E k \in DOMAIN top :
                  /\ top[k].entry_id = id
                  /\ recent[k].content_preview = Prefix(content, PreviewLen)
                  /\ Length(content) <= PreviewLen => recent[k].content_preview = content
                  /\ Length(recent[k].content_preview) = Min(Length(content), PreviewLen)

\* ----------------------------------------------------------------- C32
\* The text is not empty and has no blank at either end.
Trimmed(s) == Truthy(s) /\ strip(s) = s /\ s.lead = 0 /\ s.trail = 0

\* C32: in every state every row of data_entries has an entry_type that
\* is not empty and has no blank at either end, a data_content that is not
\* empty, has no blank at either end and is at most 10,000 characters
\* long, and the dept_id of a row of departments.
C32_EntriesWellFormed ==
    \A i \in DOMAIN entries :
        /\ Trimmed(entries[i].entry_type)
        /\ Trimmed(entries[i].data_content)
        /\ Length(entries[i].data_content) <= MaxContent
        /\ \E d \in DOMAIN departments : departments[d].dept_id = entries[i].dept_id

\* A call with blanks around its entry type and its content has stored
\* its row.
C32_Witness ==
    /\ last.op = "save"
    /\ last.resp.success
    /\ last.req.entry_type = Pad(Category, 1, 1)
    /\ last.req.data_content = Pad(Short, 2, 1)
    /\ entries[Len(entries)].entry_id = last.resp.entry_id

\* ----------------------------------------------------------------- C33
\* C33: at any time at most one session is inside the transaction of its
\* INSERT and at most one session has an export file open for writing, so
\* that no two automatic exports write one file at the same time.
C33_WritesSerialized ==
    /\ Cardinality({ c \in Conns : phase[c] = "commit" }) <= 1
    /\ Cardinality({ c \in Conns : phase[c] = "writing" }) <= 1

\* ----------------------------------------------------------------- C34
\* C34: every request of a connection other than disconnect whose fields
\* are text is answered with exactly one response, the one of its
\* dispatch, and a step that handles no request sends nothing: the
\* responses of a connection are, one for one and in order, the answers to
\* its requests.
C34_OneResponsePerRequest ==
    [][\A c \in Pair :
        /\ \A m \in DecodeRequests :
              (Received(c, m) /\ ~Faulty(m) /\ ~ActionIs(m, "disconnect")) =>
                  /\ last'.sent = 1
                  /\ last'.resp = Dispatch(c, m).resp
        /\ (last'.conn = c /\ last' # last
                /\ last'.op \notin { "request", "pieces", "malformed", "undecodable" }) =>
              last'.sent = 0]_vars

\* ----------------------------------------------------------------- C36
\* C36: the client takes every response whole.  Whenever a request path of
\* the client has ended, the response it took is the response to the request
\* it sent, and no byte of any response is left unread in its socket to be
\* read as the response to the next request.
C36_ResponsesReceivedWhole ==
    \A c \in Conns :
        gui[c].pc = "idle" /\ gui[c].asked > 0 =>
            /\ gui[c].res.of = gui[c].asked
            /\ gui[c].unread = << >>

\* ----------------------------------------------------------------- C37
\* The client is inside the receive loop of login or submit_data and the
\* peer has sent bytes.
Receiving(c) ==
    /\ gui[c].path \in {"login", "submit_data"}
    /\ \/ gui[c].pc = "reading"
       \/ gui[c].pc = "sent" /\ Answered(c)

\* C37: once the peer has sent bytes, the receive loop of login and
\* submit_data ends, also when the bytes never parse and the peer keeps the
\* connection open.
C37_ReceiveLoopEnds ==
    \A c \in Conns : Receiving(c) ~> ~Receiving(c)

\* ----------------------------------------------------------------- C38
\* Connection c's socket is in self.clients.
Listed(c) == \E i \in DOMAIN clients : clients[i] = c

\* C38: a handler that has ended, by whatever path, has closed its socket and
\* taken it off self.clients: the list holds the sockets of the connections
\* accepted and not yet ended, and no other.
C38_ClientsHoldsLiveSockets ==
    \A c \in Conns :
        /\ phase[c] = "closed" => ~Listed(c)
        /\ phase[c] \in {"accepted", "open"} => Listed(c)

\* A handler has just ended by an exception that only the handler around the
\* loop catches, while the other connection is still served.
C38_Witness ==
    \E c, d \in Conns :
        /\ last.op \in {"request", "undecodable"}
        /\ last.conn = c
        /\ \E i \in DOMAIN last.log : last.log[i] = LogConn("Client handler error", c)
        /\ phase[c] = "closed"
        /\ phase[d] = "open"
        /\ clients = << d >>

\* ----------------------------------------------------------------- C39
\* C39: once stop_server has been called the accept loop has ended
\* (self.running is False and the main thread is out of the loop), no
\* connection is accepted any more, and when stop_server returns every socket
\* that was in self.clients at the call is closed, by stop_server or by its
\* own handler.
C39_StopServerStops ==
    /\ main.pc \in {"closing", "stopped"} => ~running
    /\ main.pc # "loop" => last.op # "accept"
    /\ main.pc = "stopped" =>
            \A c \in main.listed : c \in main.closed \/ phase[c] = "closed"

\* ----------------------------------------------------------------- C40
\* C40: self.stats['exports'] is 0 in every reachable state, whatever was
\* exported, and every get_stats response reports 0 exports.
C40_ExportsNeverCounted ==
    /\ stats.exports = 0
    /\ last.op = "request" /\ "stats" \in DOMAIN last.resp =>
            last.resp.stats.exports = 0

\* get_stats has just been answered after an entry was saved (and its
\* automatic export run) and after export_csv wrote its report.
C40_Witness ==
    /\ last.op = "request"
    /\ ActionIs(last.req, "get_stats")
    /\ "stats" \in DOMAIN last.resp
    /\ last.resp.stats.data_entries > 0
    /\ files.report # NoFile

\* ----------------------------------------------------------------- C35
\* C35: a login on an Unauthenticated session with the email and the
\* password of any line that display_sample_credentials prints or the
\* README lists is answered with success and logs the session in as the
\* department of that line.
C35_ShownCredentialsLogIn ==
    [][\A c \in Pair, line \in ShownCredentials :
        (Received(c, LoginAs(line)) /\ ~authenticated[c]) =>
            /\ last'.resp.status = "success"
            /\ authenticated'[c]
            /\ dept_info'[c].dept_name = line[1]]_vars
====
